---- MODULE Spec2Model ----
(***************************************************************************)
(* Model of the OrderEngine matching core: the threaded OrderBook          *)
(* (order_book.cpp / order_book.hpp).  Producers enqueue orders with       *)
(* submitOrder, one matching thread dequeues them and runs processOrder    *)
(* (insert into the own book, then matchOrders), a controller calls        *)
(* start() and stop().                                                     *)
(*                                                                         *)
(* Prices are doubles in the source that are only compared and copied;     *)
(* they are modelled as integer ticks.  Quantities are uint32_t.           *)
(***************************************************************************)
EXTENDS Integers, Sequences, FiniteSets, TLC

\* ---- bounds of the model ------------------------------------------------
MaxOrders == 4      \* orders submitted in one behaviour
MaxPrice  == 3      \* prices are 1..MaxPrice ticks
MaxQty    == 2      \* submitted quantities are 1..MaxQty
MaxQueue  == 2      \* orders waiting in order_queue_ at one time
MaxStarts == 1      \* calls of start() in one behaviour
MaxStops  == 2      \* calls of stop() in one behaviour
MaxTrades == 3      \* trades passed to TradeLogger::logTrade in one behaviour
MaxSamples == 2     \* calls of LatencyStats::recordLatency in one behaviour
MaxLatency == 2     \* largest latency sample, in ns

\* ---- program constants --------------------------------------------------
\* uint32_t quantity arithmetic wraps around.  The model checker's integers are
\* 32-bit signed, so the wrap-around is taken modulo 2^30: a subtraction that
\* underflows still yields a value far above every submitted quantity.
UIntWrap == 1073741824

VARIABLES
    buy_orders_,      \* multimap<double, Order, greater>: sequence, best (highest) first
    sell_orders_,     \* multimap<double, Order>: sequence, best (lowest) first
    order_queue_,     \* std::queue of submitted orders
    queue_mutex_,     \* holder of queue_mutex_: "free", "worker"
    running_,         \* std::atomic<bool> running_
    joinable,         \* matching_thread_.joinable()
    trade_callback_,  \* TRUE iff a callback is installed
    pc,               \* position of the matching thread
    order,            \* the order the matching thread holds (local of matchingThreadFunc)
    ctl,              \* position of the controller thread inside stop()
    trades,           \* what the installed callback saw for the order being processed
    h,                \* history: counters used by the properties only
    ing,              \* OrderBookServer: parser_.next_order_id_ and the ingress threads
    tl,               \* the TradeLogger object and its threads
    stats,            \* LatencyStats and the thread inside recordLatency
    order_pool_,      \* MemoryPool<Order>: pool_, available_ and the objects handed out
    srv               \* OrderBookServer: running_, its threads, main() and the exit code

\* the state outside the OrderBook
aux == <<ing, tl, stats, order_pool_, srv>>

\* the state of the OrderBook
eng == <<buy_orders_, sell_orders_, order_queue_, queue_mutex_, running_,
         joinable, trade_callback_, pc, order, ctl, trades, h>>

vars == <<buy_orders_, sell_orders_, order_queue_, queue_mutex_, running_,
          joinable, trade_callback_, pc, order, ctl, trades, h, ing, tl, stats,
          order_pool_, srv>>

BUY  == "BUY"
SELL == "SELL"
OrderSide == {BUY, SELL}

NoOrder == [id |-> 0, side |-> BUY, price |-> 0, quantity |-> 0]

Order(id, side, price, quantity) ==
    [id |-> id, side |-> side, price |-> price, quantity |-> quantity]

\* fault variant: the two identifiers of the Trade exchanged
TradeSwapped(buy_order_id, sell_order_id, price, quantity) ==
    [buy_order_id |-> sell_order_id, sell_order_id |-> buy_order_id,
     price |-> price, quantity |-> quantity]

Trade(buy_order_id, sell_order_id, price, quantity) ==
    [buy_order_id |-> buy_order_id, sell_order_id |-> sell_order_id,
     price |-> price, quantity |-> quantity]

Min(a, b) == IF a < b THEN a ELSE b

\* ---- the two books --------------------------------------------------------

\* std::greater<double>: a buy key k1 is ordered before k2 iff k1 > k2
BuyBefore(k1, k2) == k1 > k2

\* fault variant: the sell book ordered like the buy book (std::greater)
SellBeforeGreater(k1, k2) == k1 > k2

\* std::less<double>: a sell key k1 is ordered before k2 iff k1 < k2
SellBefore(k1, k2) == k1 < k2

\* multimap::emplace puts the new element at the upper bound of its key:
\* after every element whose key is not ordered after the new key.
\* fault variant: insertion at the lower bound, in front of the equal keys
RECURSIVE LowerBoundBuy(_, _, _)
LowerBoundBuy(book, key, i) ==
    IF i > Len(book) THEN i
    ELSE IF ~BuyBefore(book[i].price, key) THEN i
    ELSE LowerBoundBuy(book, key, i + 1)

RECURSIVE UpperBoundBuy(_, _, _)
UpperBoundBuy(book, key, i) ==
    IF i > Len(book) THEN i
    ELSE IF BuyBefore(key, book[i].price) THEN i
    ELSE UpperBoundBuy(book, key, i + 1)

RECURSIVE UpperBoundSell(_, _, _)
UpperBoundSell(book, key, i) ==
    IF i > Len(book) THEN i
    ELSE IF SellBefore(key, book[i].price) THEN i
    ELSE UpperBoundSell(book, key, i + 1)

InsertAt(book, i, o) ==
    SubSeq(book, 1, i - 1) \o <<o>> \o SubSeq(book, i, Len(book))

EmplaceBuy(book, o)  == InsertAt(book, UpperBoundBuy(book, o.price, 1), o)
EmplaceSell(book, o) == InsertAt(book, UpperBoundSell(book, o.price, 1), o)

\* fault variant: "<=" in place of "<"
NoMatchPossibleLe(buy_key, sell_key) == buy_key <= sell_key

\* fault variant: the comparison the wrong way round
NoMatchPossibleGt(buy_key, sell_key) == buy_key > sell_key

\* matchOrders line 75: "if (buy_it->first < sell_it->first) break;"
NoMatchPossible(buy_key, sell_key) == buy_key < sell_key

\* matchOrders line 71 and 75: the loop runs another iteration
CanMatch(buys, sells) ==
    /\ buys # <<>>
    /\ sells # <<>>
    /\ ~NoMatchPossible(buys[1].price, sells[1].price)

\* fault variant: the buy order's quantity without the std::min
TradeQuantityBuy(buy_order, sell_order) == buy_order.quantity

\* matchOrders line 82
TradeQuantity(buy_order, sell_order) == Min(buy_order.quantity, sell_order.quantity)

\* fault variant: the operands of the subtraction exchanged
DecrementSwapped(quantity, trade_quantity) == (trade_quantity - quantity) % UIntWrap

\* matchOrders lines 85-86: uint32_t "quantity -= trade_quantity"
Decrement(quantity, trade_quantity) == (quantity - trade_quantity) % UIntWrap

\* fault variant: the Trade carries buy_order.price
ExecutionPriceBuy(buy_order, sell_order) == buy_order.price

\* executeTrade line 102: the Trade carries sell_order.price
ExecutionPrice(buy_order, sell_order) == sell_order.price

\* fault variant: the Trade is handed over without testing trade_callback_
ExecuteTradeUntested(callback, emitted, trade) == Append(emitted, trade)

\* executeTrade lines 98-107: "if (trade_callback_) { ...; trade_callback_(trade); }"
\* emitted is the sequence of trades the callback has been given
ExecuteTrade(callback, emitted, trade) ==
    IF callback THEN Append(emitted, trade) ELSE emitted

\* fault variant: an order filled to zero is not erased
AfterFillKeep(book, quantity) ==
    <<[book[1] EXCEPT !.quantity = quantity]>> \o Tail(book)

\* fault variant: a partly filled order goes to the back of the book
AfterFillRequeue(book, quantity) ==
    IF quantity = 0 THEN Tail(book)
    ELSE Tail(book) \o <<[book[1] EXCEPT !.quantity = quantity]>>

\* fault variant: the head is erased when its quantity is one
AfterFillEraseOne(book, quantity) ==
    IF quantity = 1 THEN Tail(book)
    ELSE <<[book[1] EXCEPT !.quantity = quantity]>> \o Tail(book)

\* matchOrders lines 88-93: erase the head when its quantity is zero,
\* otherwise the head keeps the decremented quantity
AfterFill(book, quantity) ==
    IF quantity = 0 THEN Tail(book)
    ELSE <<[book[1] EXCEPT !.quantity = quantity]>> \o Tail(book)

\* fault variant: "while (running_)"
LoopConditionRunning == running_

\* matchingThreadFunc line 36: "while (running_ || !order_queue_.empty())"
LoopCondition == running_ \/ order_queue_ # <<>>

\* matchingThreadFunc line 38: the predicate of queue_cv_.wait
WaitPredicate == order_queue_ # <<>> \/ ~running_

\* fault variant: the matching thread keeps the mutex while it processes
UnlockNone(holder) == holder

\* matchingThreadFunc line 43: "lock.unlock()"
Unlock(holder) == "free"

\* fault variant: the worker takes the newest order
Back(queue) == queue[Len(queue)]

\* matchingThreadFunc line 41: order_queue_.front()
Front(queue) == Head(queue)

\* fault variant: stop() returns without waiting for the thread
JoinReturnsAtOnce(thread_joinable, thread_pc) == TRUE

\* fault variant: join() without the joinable() test
JoinReturnsUnguarded(thread_joinable, thread_pc) == thread_pc = "done"

\* stop lines 20-22: "if (joinable()) join();" returns once the thread
\* function has returned, and at once when there is no thread to join
JoinReturns(thread_joinable, thread_pc) == thread_joinable => thread_pc = "done"

\* ---- the objects around the OrderBook ---------------------------------------
NumIngress == 2     \* ingress threads: thread 1 is the console, the others clients
MaxLines == 2       \* lines a behaviour reads from client sockets
MaxInitial == 2     \* largest argument of the MemoryPool constructor
MaxPool == 8        \* largest pool_.size()
MaxAccepts == 1     \* connections a behaviour accepts

\* "size_t initial_size_{1000}" and the default argument of the constructor
initial_size_ == 2

\* main() has not returned
NoExit == -1
Ingress == 1..NumIngress
Console == 1

\* A line of text as parseOrder takes it apart: the text between the quotes
\* after "side":, and the texts after "price": and "quantity": up to the next
\* ',' or '}'.  A number text is <<kind, value>>:
\*   "missing"  the key is not in the line
\*   "junk"     no number at the start of the text
\*   "huge"     more digits than the type holds
\*   "num"      the text is the number value
\*   "numjunk"  the number value followed by other characters
NoLine == [side |-> "missing", price |-> <<"missing", 0>>, quantity |-> <<"missing", 0>>]

\* OrderBookServer before any input: parser_.next_order_id_{1}, idle threads
Ing0 ==
    [next_order_id_ |-> 1,
     th     |-> [t \in Ingress |-> [pc |-> "idle", order |-> NoOrder, line |-> NoLine]],
     counts |-> [buy |-> 0, sell |-> 0],     \* what the console printed last
     lines  |-> 0,                           \* lines read from client sockets
     acks   |-> 0]                           \* "ACK\n" replies written

\* fault variant: an exhausted pool is not grown
GrowToSame(size) == IF size = 0 THEN initial_size_ ELSE size

\* acquire line 24: the size an exhausted pool of that size is grown to
GrowTo(size) == IF size = 0 THEN initial_size_ ELSE size * 2

\* fault variant: "for (size_t i = 0; ...": every object up to size is pushed
ReserveFromZero(p, size) ==
    IF size <= p.pool_ THEN p
    ELSE [p EXCEPT !.pool_ = size,
                   !.available_ = @ \o [i \in 1..size |-> i]]

\* MemoryPool::reserve: objects current_size+1 .. size are made and pushed
Reserve(p, size) ==
    IF size <= p.pool_ THEN p
    ELSE [p EXCEPT !.pool_ = size,
                   !.available_ = @ \o [i \in 1..(size - p.pool_) |-> p.pool_ + i]]

\* MemoryPool(initial_size): "reserve(initial_size)" on the empty pool.
\* Objects are numbered from 1, the top of available_ is its last element,
\* held are the objects owned by a unique_ptr that acquire returned.
MemoryPool(initial_size) ==
    Reserve([pool_ |-> 0, available_ |-> <<>>, held |-> {}, arg |-> initial_size,
             acquired |-> 0],
            initial_size)

\* "MemoryPool<Order> order_pool_;" with the default argument
Pool0 == MemoryPool(initial_size_)

\* OrderBookServer before start(): running_{true}, no thread yet, main() in
\* its try block about to call start()
Srv0 ==
    [running_ |-> TRUE,
     main     |-> "L152",
     console  |-> "none",
     stats    |-> "none",
     tcp      |-> "none",
     exit_code |-> NoExit,
     quit      |-> FALSE,     \* the console read quit or exit
     tcp_error |-> "none",    \* the call of tcpServerThread that failed
     accepted  |-> 0]         \* connections accept() returned

\* a constructed TradeLogger whose file is open
Tl0 ==
    [trade_queue_ |-> <<>>,
     queue_mutex_ |-> "free",
     running_     |-> FALSE,
     joinable     |-> FALSE,
     file_open    |-> TRUE,
     file_        |-> <<>>,      \* the records written after the header
     pc           |-> "none",    \* position of the logging thread
     trade        |-> 0,         \* the trade the logging thread holds
     ctl          |-> "ready",   \* position of the controller inside stop()
     logged       |-> 0,         \* history: logTrade calls returned
     passed       |-> <<>>,      \* history: the trades passed to logTrade, in order
     starts       |-> 0,         \* history: start() calls
     stops        |-> 0,         \* history: stop() calls
     stopStarted  |-> FALSE,     \* history, last stop(): a thread was joinable
     stopLogged   |-> 0,         \* history, last stop(): logged at the call
     stopQueued   |-> 0,         \* history, last stop(): trades queued at the call
     stopOpen     |-> FALSE,     \* history, last stop(): file open at the call
     stopReturned |-> FALSE]     \* history, last stop() has returned

MaxU64 == 1000000

\* fault variant: the addition is lost
FetchAddLost(counter, n) == counter

\* "counter++" and "counter += n" on a std::atomic<uint64_t>, whose largest
\* value is written MaxU64
FetchAdd(counter, n) == (counter + n) % (MaxU64 + 1)

\* fault variant: a plain store in place of the compare-exchange
CompareExchangeStore(stored, expected, desired) == desired

\* compare_exchange_weak: the value of the atomic after the call
CompareExchange(stored, expected, desired) ==
    IF stored = expected THEN desired ELSE stored

\* the threads that may be inside recordLatency at the same time
NumRecorders == 2
Recorders == 1..NumRecorders

\* LatencyStats as constructed; min_latency_ns{UINT64_MAX} is written MaxU64
Stats0 ==
    [total_orders     |-> 0,
     total_latency_ns |-> 0,
     min_latency_ns   |-> MaxU64,
     max_latency_ns   |-> 0,
     pc               |-> "idle",   \* position inside recordLatency
     latency_ns       |-> 0,        \* its argument
     recorded         |-> 0,        \* history: recordLatency calls
     rpc              |-> "idle",   \* position of the reader inside printStats
     orders           |-> 0,        \* the reader's loads
     total            |-> 0,
     min_ns           |-> 0,
     max_ns           |-> 0,
     rec              |-> [t \in Recorders |->     \* concurrent callers of recordLatency
                             [pc |-> "idle", latency_ns |-> 0, current |-> 0]],
     samples          |-> <<>>]     \* history: the arguments of their calls

\* the history counters before anything has happened
H0 ==
    [submitted     |-> 0,                        \* submitOrder calls returned
     submittedQty  |-> [s \in OrderSide |-> 0],  \* quantity submitted per side
     tradedQty     |-> 0,                        \* quantity of the trades emitted
     tradeCount    |-> 0,                        \* callback invocations
     processed     |-> 0,                        \* processOrder calls returned
     enqueued      |-> <<>>,                     \* ids in the order of their push
     popped        |-> <<>>,                     \* ids in the order of their pop
     owner         |-> <<>>,                     \* ingress thread that parsed id i
     partial       |-> {},                       \* ids of resting orders that were partly filled
     starts        |-> 0,                        \* start() calls
     stops         |-> 0,                        \* stop() calls
     snapBuy       |-> <<>>,                     \* books at entry of processOrder
     snapSell      |-> <<>>,
     stopStarted   |-> FALSE,                    \* last stop(): a thread was joinable
     stopSubmitted |-> 0,                        \* last stop(): h.submitted at the call
     stopQueued    |-> 0,                        \* last stop(): orders queued at the call
     stopReturned  |-> FALSE]                    \* last stop() has returned

\* ---- initial state: a constructed OrderBook, setTradeCallback called or not
Init ==
    /\ buy_orders_ = <<>>
    /\ sell_orders_ = <<>>
    /\ order_queue_ = <<>>
    /\ queue_mutex_ = "free"
    /\ running_ = FALSE
    /\ joinable = FALSE
    /\ trade_callback_ \in BOOLEAN
    /\ pc = "none"
    /\ order = NoOrder
    /\ ctl = "ready"
    /\ trades = <<>>
    /\ h = H0
    /\ ing = Ing0
    /\ tl = Tl0
    /\ stats = Stats0
    /\ order_pool_ = Pool0
    /\ srv = Srv0

\* fault variant: the notification is dropped
NotifyNone(p) == p

\* cv notify_one / notify_all with the single waiter: a blocked thread wakes
Notify(p) == IF p = "blocked" THEN "woken" ELSE p

\* ---- producers: OrderBook::submitOrder ------------------------------------
SubmitOrder(side, price, quantity) ==
    /\ h.submitted < MaxOrders
    /\ Len(order_queue_) < MaxQueue
    /\ queue_mutex_ = "free"
    /\ order_queue_' = Append(order_queue_, Order(h.submitted + 1, side, price, quantity))
    /\ pc' = Notify(pc)
    /\ h' = [h EXCEPT !.submitted = @ + 1,
                      !.submittedQty[side] = @ + quantity,
                      !.enqueued = Append(@, h.submitted + 1)]
    /\ UNCHANGED <<buy_orders_, sell_orders_, queue_mutex_, running_, joinable,
                   trade_callback_, order, ctl, trades>>
    /\ UNCHANGED aux

\* ---- controller: OrderBook::start -----------------------------------------
Start ==
    /\ ctl = "ready"
    /\ ~joinable
    /\ h.starts < MaxStarts
    /\ running_' = TRUE
    /\ joinable' = TRUE
    /\ pc' = "L36"
    /\ h' = [h EXCEPT !.starts = @ + 1]
    /\ UNCHANGED <<buy_orders_, sell_orders_, order_queue_, queue_mutex_,
                   trade_callback_, order, ctl, trades>>
    /\ UNCHANGED aux

\* ---- controller: OrderBook::stop, one action per statement ----------------
StopL18 ==
    /\ ctl = "ready"
    /\ h.stops < MaxStops
    /\ running_' = FALSE
    /\ ctl' = "L19"
    /\ h' = [h EXCEPT !.stops = @ + 1,
                      !.stopStarted = joinable,
                      !.stopSubmitted = h.submitted,
                      !.stopQueued = Len(order_queue_),
                      !.stopReturned = FALSE]
    /\ UNCHANGED <<buy_orders_, sell_orders_, order_queue_, queue_mutex_, joinable,
                   trade_callback_, pc, order, trades>>
    /\ UNCHANGED aux

StopL19 ==
    /\ ctl = "L19"
    /\ pc' = Notify(pc)
    /\ ctl' = "L20"
    /\ UNCHANGED <<buy_orders_, sell_orders_, order_queue_, queue_mutex_, running_,
                   joinable, trade_callback_, order, trades, h>>
    /\ UNCHANGED aux

\* join() returns once the thread function has returned
StopL20 ==
    /\ ctl = "L20"
    /\ JoinReturns(joinable, pc)
    /\ joinable' = FALSE
    /\ ctl' = "ready"
    /\ h' = [h EXCEPT !.stopReturned = TRUE]
    /\ UNCHANGED <<buy_orders_, sell_orders_, order_queue_, queue_mutex_, running_,
                   trade_callback_, pc, order, trades>>
    /\ UNCHANGED aux

\* ---- matching thread: OrderBook::matchingThreadFunc -------------------------
WhileL36 ==
    /\ pc = "L36"
    /\ pc' = IF LoopCondition THEN "L37" ELSE "done"
    /\ UNCHANGED <<buy_orders_, sell_orders_, order_queue_, queue_mutex_, running_,
                   joinable, trade_callback_, order, ctl, trades, h>>
    /\ UNCHANGED aux

LockL37 ==
    /\ pc = "L37"
    /\ queue_mutex_ = "free"
    /\ queue_mutex_' = "worker"
    /\ pc' = "L38"
    /\ UNCHANGED <<buy_orders_, sell_orders_, order_queue_, running_, joinable,
                   trade_callback_, order, ctl, trades, h>>
    /\ UNCHANGED aux

\* wait(lock, pred) is "while (!pred()) wait(lock);": the predicate is tested
\* with the mutex held, and a false predicate leads to the blocking wait
WaitL38 ==
    /\ pc = "L38"
    /\ pc' = IF WaitPredicate THEN "L40" ELSE "L38w"
    /\ UNCHANGED <<buy_orders_, sell_orders_, order_queue_, queue_mutex_, running_,
                   joinable, trade_callback_, order, ctl, trades, h>>
    /\ UNCHANGED aux

\* cv.wait(lock): release the mutex and block, atomically
BlockL38 ==
    /\ pc = "L38w"
    /\ queue_mutex_' = "free"
    /\ pc' = "blocked"
    /\ UNCHANGED <<buy_orders_, sell_orders_, order_queue_, running_, joinable,
                   trade_callback_, order, ctl, trades, h>>
    /\ UNCHANGED aux

\* a notified waiter re-acquires the mutex and tests the predicate again
WakeL38 ==
    /\ pc = "woken"
    /\ queue_mutex_ = "free"
    /\ queue_mutex_' = "worker"
    /\ pc' = "L38"
    /\ UNCHANGED <<buy_orders_, sell_orders_, order_queue_, running_, joinable,
                   trade_callback_, order, ctl, trades, h>>
    /\ UNCHANGED aux

\* lines 40-43: take the front order and unlock
PopL40 ==
    /\ pc = "L40"
    /\ order_queue_ # <<>>
    /\ order' = Front(order_queue_)
    /\ order_queue_' = Tail(order_queue_)
    /\ queue_mutex_' = Unlock(queue_mutex_)
    /\ pc' = "L45"
    /\ h' = [h EXCEPT !.popped = Append(@, Front(order_queue_).id)]
    /\ UNCHANGED <<buy_orders_, sell_orders_, running_, joinable, trade_callback_,
                   ctl, trades>>
    /\ UNCHANGED aux

\* line 40 with an empty queue: leave the inner loop, the unique_lock is
\* destroyed at the end of the outer iteration
EmptyL40 ==
    /\ pc = "L40"
    /\ order_queue_ = <<>>
    /\ queue_mutex_' = "free"
    /\ pc' = "L36"
    /\ UNCHANGED <<buy_orders_, sell_orders_, order_queue_, running_, joinable,
                   trade_callback_, order, ctl, trades, h>>
    /\ UNCHANGED aux

\* ---- OrderBook::processOrder lines 52-59: insert into the own book ----------
ProcessOrder ==
    /\ pc = "L45"
    /\ IF order.side = BUY
         THEN /\ buy_orders_' = EmplaceBuy(buy_orders_, order)
              /\ UNCHANGED sell_orders_
         ELSE /\ sell_orders_' = EmplaceSell(sell_orders_, order)
              /\ UNCHANGED buy_orders_
    /\ pc' = "L71"
    /\ trades' = <<>>
    /\ h' = [h EXCEPT !.snapBuy = buy_orders_, !.snapSell = sell_orders_]
    /\ UNCHANGED <<order_queue_, queue_mutex_, running_, joinable, trade_callback_,
                   order, ctl>>
    /\ UNCHANGED aux

\* ---- OrderBook::matchOrders: one iteration of the loop, with executeTrade ----
MatchOrders ==
    /\ pc = "L71"
    /\ CanMatch(buy_orders_, sell_orders_)
    /\ LET buy_order  == buy_orders_[1]
           sell_order == sell_orders_[1]
           trade_quantity == TradeQuantity(buy_order, sell_order)
           trade == Trade(buy_order.id, sell_order.id,
                          ExecutionPrice(buy_order, sell_order), trade_quantity)
           filled == {o.id : o \in {x \in {buy_order, sell_order} :
                                       Decrement(x.quantity, trade_quantity) = 0}}
       IN /\ trades' = ExecuteTrade(trade_callback_, trades, trade)
          /\ IF trade_callback_
               THEN h' = [h EXCEPT !.tradeCount = @ + 1,
                                   !.tradedQty = @ + trade_quantity,
                                   !.partial = (@ \cup {buy_order.id, sell_order.id})
                                                  \ filled]
               ELSE h' = [h EXCEPT !.partial = (@ \cup {buy_order.id, sell_order.id})
                                                  \ filled]
          /\ buy_orders_' = AfterFill(buy_orders_,
                                      Decrement(buy_order.quantity, trade_quantity))
          /\ sell_orders_' = AfterFill(sell_orders_,
                                       Decrement(sell_order.quantity, trade_quantity))
    /\ UNCHANGED <<order_queue_, queue_mutex_, running_, joinable, trade_callback_,
                   pc, order, ctl>>
    /\ UNCHANGED aux

\* matchOrders leaves its loop; processOrder returns to line 47
MatchDone ==
    /\ pc = "L71"
    /\ ~CanMatch(buy_orders_, sell_orders_)
    /\ pc' = "L47"
    /\ order' = NoOrder
    /\ h' = [h EXCEPT !.processed = @ + 1]
    /\ UNCHANGED <<buy_orders_, sell_orders_, order_queue_, queue_mutex_, running_,
                   joinable, trade_callback_, ctl, trades>>
    /\ UNCHANGED aux

\* line 47: lock.lock()
RelockL47 ==
    /\ pc = "L47"
    /\ queue_mutex_ = "free"
    /\ queue_mutex_' = "worker"
    /\ pc' = "L40"
    /\ UNCHANGED <<buy_orders_, sell_orders_, order_queue_, running_, joinable,
                   trade_callback_, order, ctl, trades, h>>
    /\ UNCHANGED aux

\* ---- the engine with its whole lifecycle; orders of one unit at two prices ---
Submit ==
    \E side \in OrderSide, price \in 1..2 :
        SubmitOrder(side, price, 1)

Next ==
    \/ Submit
    \/ Start
    \/ StopL18
    \/ StopL19
    \/ StopL20
    \/ WhileL36
    \/ LockL37
    \/ WaitL38
    \/ BlockL38
    \/ WakeL38
    \/ PopL40
    \/ EmptyL40
    \/ ProcessOrder
    \/ MatchOrders
    \/ MatchDone
    \/ RelockL47

Spec == Init /\ [][Next]_vars

\* ---- start() called any number of times -----------------------------------
\* OrderBook::start while matching_thread_ is joinable (a thread was started
\* and has not been joined): line 13 stores running_, and the move assignment
\* of line 14 to a joinable std::thread calls std::terminate, which ends the
\* process and every thread in it
StartJoinable ==
    /\ ctl = "ready"
    /\ joinable
    /\ running_' = TRUE
    /\ pc' = "terminated"
    /\ ctl' = "terminated"
    /\ h' = [h EXCEPT !.starts = @ + 1]
    /\ UNCHANGED <<buy_orders_, sell_orders_, order_queue_, queue_mutex_,
                   joinable, trade_callback_, order, trades>>
    /\ UNCHANGED aux

\* no thread of a terminated process takes a step
Alive == ctl # "terminated"

NextStarts ==
    \/ Alive /\ Next
    \/ StartJoinable

SpecStarts == Init /\ [][NextStarts]_vars

\* ---- the running engine (start() has returned, stop() is not called) with
\* ---- orders of every side, price and quantity
InitBook ==
    /\ buy_orders_ = <<>>
    /\ sell_orders_ = <<>>
    /\ order_queue_ = <<>>
    /\ queue_mutex_ = "free"
    /\ running_ = TRUE
    /\ joinable = TRUE
    /\ trade_callback_ \in BOOLEAN
    /\ pc = "L36"
    /\ order = NoOrder
    /\ ctl = "ready"
    /\ trades = <<>>
    /\ h = [H0 EXCEPT !.starts = 1]
    /\ ing = Ing0
    /\ tl = Tl0
    /\ stats = Stats0
    /\ order_pool_ = Pool0
    /\ srv = Srv0

SubmitBook ==
    \E side \in OrderSide, price \in 1..MaxPrice, quantity \in 1..MaxQty :
        SubmitOrder(side, price, quantity)

NextBook ==
    \/ SubmitBook
    \/ WhileL36
    \/ LockL37
    \/ WaitL38
    \/ BlockL38
    \/ WakeL38
    \/ PopL40
    \/ EmptyL40
    \/ ProcessOrder
    \/ MatchOrders
    \/ MatchDone
    \/ RelockL47

SpecBook == InitBook /\ [][NextBook]_vars

\* the steps of the matching thread
Worker ==
    \/ WhileL36
    \/ LockL37
    \/ WaitL38
    \/ BlockL38
    \/ WakeL38
    \/ PopL40
    \/ EmptyL40
    \/ ProcessOrder
    \/ MatchOrders
    \/ MatchDone
    \/ RelockL47

\* ---- the running engine with orders of quantity zero as well, under fair
\* ---- scheduling of the matching thread
SubmitZero ==
    \E side \in OrderSide, price \in 1..2, quantity \in 0..MaxQty :
        SubmitOrder(side, price, quantity)

NextZero == SubmitZero \/ Worker

SpecZero == InitBook /\ [][NextZero]_vars /\ WF_vars(Worker)

\* the steps of a thread that is inside stop()
Stopper == StopL19 \/ StopL20

\* fair scheduling: a thread that can take a step eventually takes one
SpecFair == Spec /\ WF_vars(Worker) /\ WF_vars(Stopper)

\* a running engine that is never stopped, under fair scheduling
NextRun == Submit \/ Worker

SpecRun == InitBook /\ [][NextRun]_vars /\ WF_vars(Worker)

(***************************************************************************)
(* OrderBookServer ingress: the console thread and the client threads parse *)
(* with the shared OrderParser and submit; the console then prints the      *)
(* depth of both books.                                                     *)
(***************************************************************************)

\* fault variant: the increment of the counter is lost
PostIncrementLost(n) == n

\* parseOrder line 75: "next_order_id_++" on the std::atomic counter
PostIncrement(n) == n + 1

\* the matching thread is inside processOrder, where it writes the books
Mutating == pc \in {"L45", "L71"}

\* getBuyOrdersCount / getSellOrdersCount: "return buy_orders_.size()", with
\* no lock and no atomic; a read that races with a write of the matching
\* thread is undefined and may return any count
SizeRead(book) == IF Mutating THEN 0..MaxOrders ELSE {Len(book)}

\* OrderParser::parseOrder called by ingress thread t
ParseOrder(t, side, price, quantity) ==
    /\ ing.th[t].pc = "idle"
    /\ ing.next_order_id_ <= MaxOrders
    /\ Len(h.owner) < MaxOrders
    /\ ing' = [ing EXCEPT
                 !.next_order_id_ = PostIncrement(@),
                 !.th[t] = [pc |-> "parsed",
                            order |-> Order(ing.next_order_id_, side, price, quantity),
                            line |-> NoLine]]
    /\ h' = [h EXCEPT !.owner = Append(@, t)]
    /\ UNCHANGED <<buy_orders_, sell_orders_, order_queue_, queue_mutex_, running_,
                   joinable, trade_callback_, pc, order, ctl, trades, tl, stats, order_pool_, srv>>

\* order_book_.submitOrder(*order) called by ingress thread t; a client
\* handler then writes "ACK\n" (lines 311-314), the console reads the depths
SubmitFrom(t) ==
    /\ ing.th[t].pc = "parsed"
    /\ h.submitted < MaxOrders
    /\ Len(order_queue_) < MaxQueue
    /\ queue_mutex_ = "free"
    /\ order_queue_' = Append(order_queue_, ing.th[t].order)
    /\ pc' = Notify(pc)
    /\ h' = [h EXCEPT !.submitted = @ + 1,
                      !.submittedQty[ing.th[t].order.side] = @ + ing.th[t].order.quantity,
                      !.enqueued = Append(@, ing.th[t].order.id)]
    /\ ing' = [ing EXCEPT !.th[t] = [pc |-> IF t = Console THEN "L223" ELSE "idle",
                                     order |-> NoOrder,
                                     line |-> NoLine],
                          !.acks = IF t = Console THEN @ ELSE @ + 1]
    /\ UNCHANGED <<buy_orders_, sell_orders_, queue_mutex_, running_, joinable,
                   trade_callback_, order, ctl, trades, tl, stats, order_pool_, srv>>

\* processOrderString line 223: order_book_.getBuyOrdersCount()
ReadBuyDepth ==
    /\ ing.th[Console].pc = "L223"
    /\ \E n \in SizeRead(buy_orders_) :
          ing' = [ing EXCEPT !.th[Console].pc = "L224", !.counts.buy = n]
    /\ UNCHANGED <<eng, tl, stats, order_pool_, srv>>

\* processOrderString line 224: order_book_.getSellOrdersCount(), then the
\* line is printed and both values are dropped
ReadSellDepth ==
    /\ ing.th[Console].pc = "L224"
    /\ \E n \in SizeRead(sell_orders_) :
          ing' = [ing EXCEPT !.th[Console].pc = "idle",
                             !.counts = [buy |-> 0, sell |-> 0]]
    /\ UNCHANGED <<eng, tl, stats, order_pool_, srv>>

\* the orders of the ingress threads: one unit at one price, either side
ParseAny ==
    \E t \in Ingress, side \in OrderSide :
        ParseOrder(t, side, 1, 1)

SubmitFromAny == \E t \in Ingress : SubmitFrom(t)

NextIngress ==
    \/ ParseAny
    \/ SubmitFromAny
    \/ ReadBuyDepth
    \/ ReadSellDepth
    \/ Worker

SpecIngress == InitBook /\ [][NextIngress]_vars

(***************************************************************************)
(* The line decoder (part_002 lines 11-90) behind a client connection       *)
(* (order_book.hpp lines 296-320): a handler thread reads a line, decodes   *)
(* it, submits the order if there is one and acknowledges it.               *)
(***************************************************************************)

Clients == Ingress \ {Console}

SideTexts == {"buy", "BUY", "sell", "SELL", "hold", "missing"}

\* the number texts a line of the model carries
PriceTexts ==
    {<<"missing", 0>>, <<"junk", 0>>, <<"huge", 0>>}
        \cup {<<k, v>> : k \in {"num", "numjunk"}, v \in {-1, 0, 1}}

QuantityTexts ==
    {<<"missing", 0>>, <<"junk", 0>>, <<"huge", 0>>}
        \cup {<<k, v>> : k \in {"num", "numjunk"}, v \in {-1, 0, 1, UIntWrap}}

\* parseOrder lines 17-24: the three find() calls all succeed
HasKeys(json_str) ==
    /\ json_str.side # "missing"
    /\ json_str.price[1] # "missing"
    /\ json_str.quantity[1] # "missing"

\* OrderParser::parseOrderSide: the side, or the exception it throws
ParseOrderSide(side_str) ==
    IF side_str \in {"buy", "BUY"} THEN BUY
    ELSE IF side_str \in {"sell", "SELL"} THEN SELL
    ELSE "invalid_argument"

\* std::stod: converts the longest number at the start of the text and
\* ignores the rest; throws when there is none or when it is out of range
Stod(price_str) ==
    IF price_str[1] \in {"num", "numjunk"}
    THEN [threw |-> FALSE, value |-> price_str[2]]
    ELSE [threw |-> TRUE, value |-> 0]

\* std::stoul: as stod for an unsigned long; a leading minus sign is
\* accepted and the value negated in the unsigned type (kept here as the
\* negative number, which is the same value modulo the width)
Stoul(quantity_str) ==
    IF quantity_str[1] \in {"num", "numjunk"}
    THEN [threw |-> FALSE, value |-> quantity_str[2]]
    ELSE [threw |-> TRUE, value |-> 0]

\* the conversion of line 73, unsigned long to uint32_t
ToUInt32(n) == n % UIntWrap

\* std::nullopt
Nullopt == NoOrder

\* OrderParser::parseOrder: the Order made of the line, or nullopt
ParseResult(json_str, id) ==
    IF ~HasKeys(json_str) THEN Nullopt
    ELSE IF ParseOrderSide(json_str.side) = "invalid_argument" THEN Nullopt
    ELSE IF Stod(json_str.price).threw THEN Nullopt
    ELSE IF Stoul(json_str.quantity).threw THEN Nullopt
    ELSE Order(id, ParseOrderSide(json_str.side), Stod(json_str.price).value,
               ToUInt32(Stoul(json_str.quantity).value))

\* handleClient lines 299-307: read() returns the next line of the client
ReadLine(t, side_str, price_str, quantity_str) ==
    /\ ing.th[t].pc = "idle"
    /\ ing.lines < MaxLines
    /\ ing.next_order_id_ <= MaxOrders
    /\ Len(h.owner) < MaxOrders
    /\ ing' = [ing EXCEPT
                 !.lines = @ + 1,
                 !.th[t].pc = "L309",
                 !.th[t].line = [side |-> side_str, price |-> price_str,
                                 quantity |-> quantity_str]]
    /\ UNCHANGED <<eng, tl, stats, order_pool_, srv>>

\* handleClient line 309: parser_.parseOrder(line); without an order the
\* handler goes back to read()
DecodeLine(t) ==
    /\ ing.th[t].pc = "L309"
    /\ LET parsed == ParseResult(ing.th[t].line, ing.next_order_id_) IN
         IF parsed = Nullopt
         THEN /\ ing' = [ing EXCEPT !.th[t].pc = "idle", !.th[t].line = NoLine]
              /\ UNCHANGED h
         ELSE /\ ing' = [ing EXCEPT !.next_order_id_ = PostIncrement(@),
                                    !.th[t].pc = "parsed",
                                    !.th[t].order = parsed]
              /\ h' = [h EXCEPT !.owner = Append(@, t)]
    /\ UNCHANGED <<buy_orders_, sell_orders_, order_queue_, queue_mutex_, running_,
                   joinable, trade_callback_, pc, order, ctl, trades, tl, stats, order_pool_, srv>>

ReadLineAny ==
    \E t \in Clients, side_str \in SideTexts, price_str \in PriceTexts,
       quantity_str \in QuantityTexts :
        ReadLine(t, side_str, price_str, quantity_str)

DecodeLineAny == \E t \in Clients : DecodeLine(t)

NextDecode ==
    \/ ReadLineAny
    \/ DecodeLineAny
    \/ SubmitFromAny
    \/ Worker

SpecDecode == InitBook /\ [][NextDecode]_vars

(***************************************************************************)
(* MemoryPool (memory_pool.hpp): acquire and release run under mutex_, so   *)
(* each is one step.                                                        *)
(***************************************************************************)

\* MemoryPool::acquire.  When available_ is still empty after the reserve,
\* top() on the empty stack is undefined: any pointer may come back.
Acquire ==
    /\ order_pool_.acquired < MaxPool
    /\ (order_pool_.available_ = <<>>) => (GrowTo(order_pool_.pool_) <= MaxPool)
    /\ LET grown == IF order_pool_.available_ = <<>>
                    THEN Reserve(order_pool_, GrowTo(order_pool_.pool_))
                    ELSE order_pool_
       IN  IF grown.available_ = <<>>
           THEN \E ptr \in 0..grown.pool_ :
                   order_pool_' = [grown EXCEPT !.held = @ \cup {ptr},
                                                !.acquired = @ + 1]
           ELSE order_pool_' =
                   [grown EXCEPT
                      !.available_ = SubSeq(@, 1, Len(@) - 1),
                      !.held = @ \cup {grown.available_[Len(grown.available_)]},
                      !.acquired = @ + 1]
    /\ UNCHANGED <<eng, ing, tl, stats, srv>>

\* the deleter of a returned unique_ptr: MemoryPool::release(ptr)
Release(ptr) ==
    /\ ptr \in order_pool_.held
    /\ order_pool_' = [order_pool_ EXCEPT !.held = @ \ {ptr},
                                          !.available_ = Append(@, ptr)]
    /\ UNCHANGED <<eng, ing, tl, stats, srv>>

ReleaseAny == \E ptr \in 0..MaxPool : Release(ptr)

InitPool ==
    /\ buy_orders_ = <<>>
    /\ sell_orders_ = <<>>
    /\ order_queue_ = <<>>
    /\ queue_mutex_ = "free"
    /\ running_ = FALSE
    /\ joinable = FALSE
    /\ trade_callback_ = FALSE
    /\ pc = "none"
    /\ order = NoOrder
    /\ ctl = "ready"
    /\ trades = <<>>
    /\ h = H0
    /\ ing = Ing0
    /\ tl = Tl0
    /\ stats = Stats0
    /\ order_pool_ \in {MemoryPool(initial_size) : initial_size \in 0..MaxInitial}
    /\ srv = Srv0

NextPool == Acquire \/ ReleaseAny

SpecPool == InitPool /\ [][NextPool]_vars

(***************************************************************************)
(* LatencyStats (part_005 lines 113-145): the matching thread records, a    *)
(* statistics reader calls the getters one after the other.                 *)
(***************************************************************************)

\* recordLatency line 120: "total_orders++"
RecordL120(latency_ns) ==
    /\ stats.pc = "idle"
    /\ stats.recorded < MaxSamples
    /\ stats' = [stats EXCEPT !.total_orders = FetchAdd(@, 1),
                              !.latency_ns = latency_ns,
                              !.recorded = @ + 1,
                              !.pc = "L121"]
    /\ UNCHANGED <<eng, ing, tl, order_pool_, srv>>

\* line 121: "total_latency_ns += latency_ns"
RecordL121 ==
    /\ stats.pc = "L121"
    /\ stats' = [stats EXCEPT !.total_latency_ns = FetchAdd(@, stats.latency_ns),
                              !.pc = "L123"]
    /\ UNCHANGED <<eng, ing, tl, order_pool_, srv>>

\* lines 123-125: the compare-exchange loop of the only writer lowers the minimum
RecordL123 ==
    /\ stats.pc = "L123"
    /\ stats' = [stats EXCEPT
                   !.min_latency_ns = IF stats.latency_ns < @ THEN stats.latency_ns ELSE @,
                   !.pc = "L127"]
    /\ UNCHANGED <<eng, ing, tl, order_pool_, srv>>

\* lines 127-129: the same for the maximum; recordLatency returns
RecordL127 ==
    /\ stats.pc = "L127"
    /\ stats' = [stats EXCEPT
                   !.max_latency_ns = IF stats.latency_ns > @ THEN stats.latency_ns ELSE @,
                   !.latency_ns = 0,
                   !.pc = "idle"]
    /\ UNCHANGED <<eng, ing, tl, order_pool_, srv>>

\* getAverageLatencyUs line 133: "orders = total_orders.load()"
ReadL133 ==
    /\ stats.rpc = "idle"
    /\ stats' = [stats EXCEPT !.orders = stats.total_orders, !.rpc = "L134"]
    /\ UNCHANGED <<eng, ing, tl, order_pool_, srv>>

\* line 134: "total_latency_ns.load()"
ReadL134 ==
    /\ stats.rpc = "L134"
    /\ stats' = [stats EXCEPT !.total = stats.total_latency_ns, !.rpc = "L138"]
    /\ UNCHANGED <<eng, ing, tl, order_pool_, srv>>

\* getMinLatencyUs line 138: "min_latency_ns.load()"
ReadL138 ==
    /\ stats.rpc = "L138"
    /\ stats' = [stats EXCEPT !.min_ns = stats.min_latency_ns, !.rpc = "L143"]
    /\ UNCHANGED <<eng, ing, tl, order_pool_, srv>>

\* getMaxLatencyUs line 143: "max_latency_ns.load()"
ReadL143 ==
    /\ stats.rpc = "L143"
    /\ stats' = [stats EXCEPT !.max_ns = stats.max_latency_ns, !.rpc = "read"]
    /\ UNCHANGED <<eng, ing, tl, order_pool_, srv>>

\* the reader has used the three values and drops them
ReadDone ==
    /\ stats.rpc = "read"
    /\ stats' = [stats EXCEPT !.orders = 0, !.total = 0, !.min_ns = 0,
                              !.max_ns = 0, !.rpc = "idle"]
    /\ UNCHANGED <<eng, ing, tl, order_pool_, srv>>

\* getMinLatencyUs line 139, in ns: UINT64_MAX reads as 0
GetMinLatency(min_ns) == IF min_ns # MaxU64 THEN min_ns ELSE 0

\* getMinLatencyUs() <= getAverageLatencyUs(), the average being
\* (total / 1000.0) / orders for orders > 0 and 0.0 otherwise
MinLeAverage(min_ns, total, orders) ==
    IF orders > 0 THEN GetMinLatency(min_ns) * orders <= total
                  ELSE GetMinLatency(min_ns) <= 0

\* getAverageLatencyUs() <= getMaxLatencyUs()
AverageLeMax(total, orders, max_ns) ==
    IF orders > 0 THEN total <= max_ns * orders ELSE 0 <= max_ns

RecordAny == \E latency_ns \in 0..MaxLatency : RecordL120(latency_ns)

NextStats ==
    \/ RecordAny
    \/ RecordL121
    \/ RecordL123
    \/ RecordL127
    \/ ReadL133
    \/ ReadL134
    \/ ReadL138
    \/ ReadL143
    \/ ReadDone

SpecStats == Init /\ [][NextStats]_vars

(***************************************************************************)
(* recordLatency called by several threads at once (part_005 lines          *)
(* 119-130): each atomic operation is one step of the calling thread.       *)
(***************************************************************************)

\* line 120: "total_orders++"
RecL120(t, latency_ns) ==
    /\ stats.rec[t].pc = "idle"
    /\ Len(stats.samples) < MaxSamples
    /\ stats' = [stats EXCEPT !.total_orders = FetchAdd(@, 1),
                              !.samples = Append(@, latency_ns),
                              !.rec[t].latency_ns = latency_ns,
                              !.rec[t].pc = "L121"]
    /\ UNCHANGED <<eng, ing, tl, order_pool_, srv>>

\* line 121: "total_latency_ns += latency_ns"
RecL121(t) ==
    /\ stats.rec[t].pc = "L121"
    /\ stats' = [stats EXCEPT
                   !.total_latency_ns = FetchAdd(@, stats.rec[t].latency_ns),
                   !.rec[t].pc = "L123"]
    /\ UNCHANGED <<eng, ing, tl, order_pool_, srv>>

\* line 123: "current_min = min_latency_ns.load()"
RecL123(t) ==
    /\ stats.rec[t].pc = "L123"
    /\ stats' = [stats EXCEPT !.rec[t].current = stats.min_latency_ns,
                              !.rec[t].pc = "L124"]
    /\ UNCHANGED <<eng, ing, tl, order_pool_, srv>>

\* lines 124-125: one evaluation of the loop condition; a failed
\* compare-exchange loads the stored value into current_min
RecL124(t) ==
    /\ stats.rec[t].pc = "L124"
    /\ IF stats.rec[t].latency_ns < stats.rec[t].current
         THEN stats' = [stats EXCEPT
                          !.min_latency_ns = CompareExchange(@, stats.rec[t].current,
                                                             stats.rec[t].latency_ns),
                          !.rec[t].current = stats.min_latency_ns,
                          !.rec[t].pc = IF stats.min_latency_ns = stats.rec[t].current
                                        THEN "L127" ELSE "L124"]
         ELSE stats' = [stats EXCEPT !.rec[t].pc = "L127"]
    /\ UNCHANGED <<eng, ing, tl, order_pool_, srv>>

\* line 127: "current_max = max_latency_ns.load()"
RecL127(t) ==
    /\ stats.rec[t].pc = "L127"
    /\ stats' = [stats EXCEPT !.rec[t].current = stats.max_latency_ns,
                              !.rec[t].pc = "L128"]
    /\ UNCHANGED <<eng, ing, tl, order_pool_, srv>>

\* lines 128-129: the same loop for the maximum; recordLatency returns
RecL128(t) ==
    /\ stats.rec[t].pc = "L128"
    /\ IF stats.rec[t].latency_ns > stats.rec[t].current
         THEN stats' = [stats EXCEPT
                          !.max_latency_ns = CompareExchange(@, stats.rec[t].current,
                                                             stats.rec[t].latency_ns),
                          !.rec[t].current = IF stats.max_latency_ns = stats.rec[t].current
                                             THEN 0 ELSE stats.max_latency_ns,
                          !.rec[t].latency_ns = IF stats.max_latency_ns = stats.rec[t].current
                                                THEN 0 ELSE @,
                          !.rec[t].pc = IF stats.max_latency_ns = stats.rec[t].current
                                        THEN "idle" ELSE "L128"]
         ELSE stats' = [stats EXCEPT !.rec[t].current = 0,
                                     !.rec[t].latency_ns = 0,
                                     !.rec[t].pc = "idle"]
    /\ UNCHANGED <<eng, ing, tl, order_pool_, srv>>

\* the samples: a few nanoseconds, or the largest uint64_t
RecCall ==
    \E t \in Recorders, latency_ns \in (0..MaxLatency) \cup {MaxU64} :
        RecL120(t, latency_ns)

NextRecorders ==
    \/ RecCall
    \/ \E t \in Recorders : RecL121(t)
    \/ \E t \in Recorders : RecL123(t)
    \/ \E t \in Recorders : RecL124(t)
    \/ \E t \in Recorders : RecL127(t)
    \/ \E t \in Recorders : RecL128(t)

SpecRecorders == Init /\ [][NextRecorders]_vars

(***************************************************************************)
(* processOrder with its latency sample (part_004 lines 52-68): after       *)
(* matchOrders has returned the matching thread calls recordLatency, then   *)
(* processOrder returns.                                                    *)
(***************************************************************************)

\* lines 61-65: matchOrders returns, the latency is computed
MatchReturnsL61 ==
    /\ pc = "L71"
    /\ ~CanMatch(buy_orders_, sell_orders_)
    /\ pc' = "L67"
    /\ UNCHANGED <<buy_orders_, sell_orders_, order_queue_, queue_mutex_, running_,
                   joinable, trade_callback_, order, ctl, trades, h>>
    /\ UNCHANGED aux

\* line 67: latency_stats_.recordLatency(latency_ns) is entered
RecordLatencyL67 ==
    /\ pc = "L67"
    /\ stats.recorded = h.processed
    /\ \E latency_ns \in 0..MaxLatency : RecordL120(latency_ns)

\* lines 67-68: recordLatency has returned, processOrder returns
ProcessOrderReturns ==
    /\ pc = "L67"
    /\ stats.pc = "idle"
    /\ stats.recorded = h.processed + 1
    /\ pc' = "L47"
    /\ order' = NoOrder
    /\ h' = [h EXCEPT !.processed = @ + 1]
    /\ UNCHANGED <<buy_orders_, sell_orders_, order_queue_, queue_mutex_, running_,
                   joinable, trade_callback_, ctl, trades>>
    /\ UNCHANGED aux

\* as many orders as the statistics of a behaviour hold samples
SubmitSampled == h.submitted < MaxSamples /\ Submit

NextLatency ==
    \/ SubmitSampled
    \/ WhileL36
    \/ LockL37
    \/ WaitL38
    \/ BlockL38
    \/ WakeL38
    \/ PopL40
    \/ EmptyL40
    \/ ProcessOrder
    \/ MatchOrders
    \/ MatchReturnsL61
    \/ RecordLatencyL67
    \/ RecordL121
    \/ RecordL123
    \/ RecordL127
    \/ ProcessOrderReturns
    \/ RelockL47

SpecLatency == InitBook /\ [][NextLatency]_vars

(***************************************************************************)
(* TradeLogger (logger.cpp): logTrade enqueues, one logging thread writes   *)
(* the records to the file, a controller calls start() and stop().          *)
(***************************************************************************)

\* formatTrade lines 69-72: the fields of the record after the timestamp
FormatTrade(trade) ==
    <<trade.buy_order_id, trade.sell_order_id, trade.price, trade.quantity>>

\* fault variant: "while (running_)"
LogLoopConditionRunning == tl.running_

\* loggerThreadFunc line 41: "while (running_ || !trade_queue_.empty())"
LogLoopCondition == tl.running_ \/ tl.trade_queue_ # <<>>

\* loggerThreadFunc line 43: the predicate of queue_cv_.wait
LogWaitPredicate == tl.trade_queue_ # <<>> \/ ~tl.running_

\* TradeLogger::logTrade
LogTrade(buy_order_id, sell_order_id, price, quantity) ==
    LET trade == Trade(buy_order_id, sell_order_id, price, quantity)
    IN  /\ tl.logged < MaxTrades
        /\ Len(tl.trade_queue_) < MaxQueue
        /\ tl.queue_mutex_ = "free"
        /\ tl' = [tl EXCEPT !.trade_queue_ = Append(@, trade),
                            !.pc = Notify(@),
                            !.logged = @ + 1,
                            !.passed = Append(@, trade)]
        /\ UNCHANGED <<eng, ing, stats, order_pool_, srv>>

\* TradeLogger::start
LogStart ==
    /\ tl.ctl = "ready"
    /\ ~tl.joinable
    /\ tl.starts < MaxStarts
    /\ tl' = [tl EXCEPT !.running_ = TRUE,
                        !.joinable = TRUE,
                        !.pc = "L41",
                        !.starts = @ + 1]
    /\ UNCHANGED <<eng, ing, stats, order_pool_, srv>>

\* TradeLogger::stop, one action per statement
LogStopL24 ==
    /\ tl.ctl = "ready"
    /\ tl.stops < MaxStops
    /\ tl' = [tl EXCEPT !.running_ = FALSE,
                        !.ctl = "L25",
                        !.stops = @ + 1,
                        !.stopStarted = tl.joinable,
                        !.stopLogged = tl.logged,
                        !.stopQueued = Len(tl.trade_queue_),
                        !.stopOpen = tl.file_open,
                        !.stopReturned = FALSE]
    /\ UNCHANGED <<eng, ing, stats, order_pool_, srv>>

LogStopL25 ==
    /\ tl.ctl = "L25"
    /\ tl' = [tl EXCEPT !.pc = Notify(@), !.ctl = "L26"]
    /\ UNCHANGED <<eng, ing, stats, order_pool_, srv>>

LogStopL26 ==
    /\ tl.ctl = "L26"
    /\ JoinReturns(tl.joinable, tl.pc)
    /\ tl' = [tl EXCEPT !.joinable = FALSE, !.ctl = "L29"]
    /\ UNCHANGED <<eng, ing, stats, order_pool_, srv>>

\* lines 29-31: "if (file_.is_open()) file_.close();"
LogStopL29 ==
    /\ tl.ctl = "L29"
    /\ tl' = [tl EXCEPT !.file_open = FALSE, !.ctl = "ready", !.stopReturned = TRUE]
    /\ UNCHANGED <<eng, ing, stats, order_pool_, srv>>

\* TradeLogger::loggerThreadFunc
LogWhileL41 ==
    /\ tl.pc = "L41"
    /\ tl' = [tl EXCEPT !.pc = IF LogLoopCondition THEN "L42" ELSE "done"]
    /\ UNCHANGED <<eng, ing, stats, order_pool_, srv>>

LogLockL42 ==
    /\ tl.pc = "L42"
    /\ tl.queue_mutex_ = "free"
    /\ tl' = [tl EXCEPT !.queue_mutex_ = "logger", !.pc = "L43"]
    /\ UNCHANGED <<eng, ing, stats, order_pool_, srv>>

LogWaitL43 ==
    /\ tl.pc = "L43"
    /\ tl' = [tl EXCEPT !.pc = IF LogWaitPredicate THEN "L45" ELSE "L43w"]
    /\ UNCHANGED <<eng, ing, stats, order_pool_, srv>>

LogBlockL43 ==
    /\ tl.pc = "L43w"
    /\ tl' = [tl EXCEPT !.queue_mutex_ = "free", !.pc = "blocked"]
    /\ UNCHANGED <<eng, ing, stats, order_pool_, srv>>

LogWakeL43 ==
    /\ tl.pc = "woken"
    /\ tl.queue_mutex_ = "free"
    /\ tl' = [tl EXCEPT !.queue_mutex_ = "logger", !.pc = "L43"]
    /\ UNCHANGED <<eng, ing, stats, order_pool_, srv>>

\* lines 45-48: copy the front trade, pop it and unlock
LogPopL45 ==
    /\ tl.pc = "L45"
    /\ tl.trade_queue_ # <<>>
    /\ tl' = [tl EXCEPT !.trade = Front(tl.trade_queue_),
                        !.trade_queue_ = Tail(@),
                        !.queue_mutex_ = "free",
                        !.pc = "L50"]
    /\ UNCHANGED <<eng, ing, stats, order_pool_, srv>>

LogEmptyL45 ==
    /\ tl.pc = "L45"
    /\ tl.trade_queue_ = <<>>
    /\ tl' = [tl EXCEPT !.queue_mutex_ = "free", !.pc = "L41"]
    /\ UNCHANGED <<eng, ing, stats, order_pool_, srv>>

\* lines 50-53: "if (file_.is_open()) { file_ << formatTrade(trade) ... }"
LogWriteL50 ==
    /\ tl.pc = "L50"
    /\ tl' = [tl EXCEPT !.file_ = IF tl.file_open
                                    THEN Append(@, FormatTrade(tl.trade)) ELSE @,
                        !.trade = 0,
                        !.pc = "L55"]
    /\ UNCHANGED <<eng, ing, stats, order_pool_, srv>>

LogRelockL55 ==
    /\ tl.pc = "L55"
    /\ tl.queue_mutex_ = "free"
    /\ tl' = [tl EXCEPT !.queue_mutex_ = "logger", !.pc = "L45"]
    /\ UNCHANGED <<eng, ing, stats, order_pool_, srv>>

\* the trades handed to the logger
LogTradeAny ==
    \E buy_order_id \in 1..2 : LogTrade(buy_order_id, 3, 1, 1)

\* a constructed TradeLogger; the constructor's open of the file may fail
InitLog ==
    /\ buy_orders_ = <<>>
    /\ sell_orders_ = <<>>
    /\ order_queue_ = <<>>
    /\ queue_mutex_ = "free"
    /\ running_ = FALSE
    /\ joinable = FALSE
    /\ trade_callback_ = FALSE
    /\ pc = "none"
    /\ order = NoOrder
    /\ ctl = "ready"
    /\ trades = <<>>
    /\ h = H0
    /\ ing = Ing0
    /\ tl \in {[Tl0 EXCEPT !.file_open = open] : open \in BOOLEAN}
    /\ stats = Stats0
    /\ order_pool_ = Pool0
    /\ srv = Srv0

NextLog ==
    \/ LogTradeAny
    \/ LogStart
    \/ LogStopL24
    \/ LogStopL25
    \/ LogStopL26
    \/ LogStopL29
    \/ LogWhileL41
    \/ LogLockL42
    \/ LogWaitL43
    \/ LogBlockL43
    \/ LogWakeL43
    \/ LogPopL45
    \/ LogEmptyL45
    \/ LogWriteL50
    \/ LogRelockL55

SpecLog == InitLog /\ [][NextLog]_vars

\* the steps of the logging thread
LogThread ==
    \/ LogWhileL41
    \/ LogLockL42
    \/ LogWaitL43
    \/ LogBlockL43
    \/ LogWakeL43
    \/ LogPopL45
    \/ LogEmptyL45
    \/ LogWriteL50
    \/ LogRelockL55

\* the steps of a thread that is inside TradeLogger::stop()
LogStopping == LogStopL25 \/ LogStopL26 \/ LogStopL29

\* no logTrade call is made once stop() has been called
LogTradeBeforeStop == tl.stops = 0 /\ LogTradeAny

NextLogFair ==
    \/ LogTradeBeforeStop
    \/ LogStart
    \/ LogStopL24
    \/ LogStopping
    \/ LogThread

\* the logging thread and the thread inside stop() are scheduled fairly
SpecLogFair ==
    InitLog /\ [][NextLogFair]_vars /\ WF_vars(LogThread) /\ WF_vars(LogStopping)

\* The OrderBook and the TradeLogger are separate objects that share no
\* state: a behaviour of SpecEither exercises one of the two.
EngineUntouched == h = H0 /\ ctl = "ready" /\ pc = "none"

LoggerUntouched == tl = Tl0

NextEither ==
    \/ LoggerUntouched /\ Next
    \/ EngineUntouched /\ NextLog

SpecEither == Init /\ [][NextEither]_vars

(***************************************************************************)
(* OrderBookServer::start and main (order_book.hpp lines 150-182, 192-206,  *)
(* 227-234, 250-294, 323-338) together with the engine and the logger they  *)
(* start and stop.  No order is entered: the lines read here are the        *)
(* commands that end the console thread.                                    *)
(***************************************************************************)

\* the steps the matching thread and the logging thread take while their
\* queues stay empty
WorkerIdle ==
    \/ WhileL36
    \/ LockL37
    \/ WaitL38
    \/ BlockL38
    \/ WakeL38
    \/ EmptyL40

LogWorkerIdle ==
    \/ LogWhileL41
    \/ LogLockL42
    \/ LogWaitL43
    \/ LogBlockL43
    \/ LogWakeL43
    \/ LogEmptyL45

LogStopper == LogStopL25 \/ LogStopL26 \/ LogStopL29

\* start() line 152: order_book_.setTradeCallback(...)
ServerL152 ==
    /\ srv.main = "L152"
    /\ trade_callback_' = TRUE
    /\ srv' = [srv EXCEPT !.main = "L161"]
    /\ UNCHANGED <<buy_orders_, sell_orders_, order_queue_, queue_mutex_, running_,
                   joinable, pc, order, ctl, trades, h, ing, tl, stats, order_pool_>>

\* start() line 161: logger_.start() is called, and returns
ServerL161Call == srv.main = "L161" /\ LogStart

ServerL161 ==
    /\ srv.main = "L161"
    /\ tl.starts > 0
    /\ srv' = [srv EXCEPT !.main = "L162"]
    /\ UNCHANGED <<eng, ing, tl, stats, order_pool_>>

\* start() line 162: order_book_.start() is called, and returns
ServerL162Call == srv.main = "L162" /\ Start

ServerL162 ==
    /\ srv.main = "L162"
    /\ h.starts > 0
    /\ srv' = [srv EXCEPT !.main = "L168"]
    /\ UNCHANGED <<eng, ing, tl, stats, order_pool_>>

\* start() lines 168-170: the three threads are created
ServerL168 ==
    /\ srv.main = "L168"
    /\ srv' = [srv EXCEPT !.main = "L169", !.console = "L197"]
    /\ UNCHANGED <<eng, ing, tl, stats, order_pool_>>

\* the std::thread constructor of line 168 throws std::system_error: start()
\* is left, the server is destroyed, the handler of main is entered
ServerL168Throws ==
    /\ srv.main = "L168"
    /\ srv' = [srv EXCEPT !.main = "D187"]
    /\ UNCHANGED <<eng, ing, tl, stats, order_pool_>>

ServerL169 ==
    /\ srv.main = "L169"
    /\ srv' = [srv EXCEPT !.main = "L170", !.stats = "L228"]
    /\ UNCHANGED <<eng, ing, tl, stats, order_pool_>>

ServerL170 ==
    /\ srv.main = "L170"
    /\ srv' = [srv EXCEPT !.main = "L173", !.tcp = "L251"]
    /\ UNCHANGED <<eng, ing, tl, stats, order_pool_>>

\* start() line 173: console_thread.join()
ServerL173 ==
    /\ srv.main = "L173"
    /\ srv.console = "done"
    /\ srv' = [srv EXCEPT !.main = "L176"]
    /\ UNCHANGED <<eng, ing, tl, stats, order_pool_>>

\* start() line 176: running_ = false
ServerL176 ==
    /\ srv.main = "L176"
    /\ srv' = [srv EXCEPT !.main = "L177", !.running_ = FALSE]
    /\ UNCHANGED <<eng, ing, tl, stats, order_pool_>>

\* start() line 177: stats_thread.join()
ServerL177 ==
    /\ srv.main = "L177"
    /\ srv.stats = "done"
    /\ srv' = [srv EXCEPT !.main = "L178"]
    /\ UNCHANGED <<eng, ing, tl, stats, order_pool_>>

\* start() line 178: tcp_thread.join()
ServerL178 ==
    /\ srv.main = "L178"
    /\ srv.tcp = "done"
    /\ srv' = [srv EXCEPT !.main = "L180"]
    /\ UNCHANGED <<eng, ing, tl, stats, order_pool_>>

\* start() line 180: order_book_.stop() is called, and returns
ServerL180Call == srv.main = "L180" /\ h.stops = 0 /\ StopL18

ServerL180 ==
    /\ srv.main = "L180"
    /\ h.stops > 0 /\ h.stopReturned
    /\ srv' = [srv EXCEPT !.main = "L181"]
    /\ UNCHANGED <<eng, ing, tl, stats, order_pool_>>

\* start() line 181: logger_.stop() is called, and returns: start() returns
ServerL181Call == srv.main = "L181" /\ tl.stops = 0 /\ LogStopL24

ServerL181 ==
    /\ srv.main = "L181"
    /\ tl.stops > 0 /\ tl.stopReturned
    /\ srv' = [srv EXCEPT !.main = "L182"]
    /\ UNCHANGED <<eng, ing, tl, stats, order_pool_>>

\* main lines 332-337 after start() returned: the server is destroyed (the
\* stop() of ~TradeLogger and ~OrderBook find no thread to join) and main
\* returns 0
MainReturn0 ==
    /\ srv.main = "L182"
    /\ srv' = [srv EXCEPT !.main = "exited", !.exit_code = 0]
    /\ UNCHANGED <<eng, ing, tl, stats, order_pool_>>

\* the exception leaves the try block: ~TradeLogger calls stop(), then
\* ~OrderBook calls stop(), then main lines 333-335 return 1
UnwindD187Call == srv.main = "D187" /\ tl.stops = 0 /\ LogStopL24

UnwindD187 ==
    /\ srv.main = "D187"
    /\ tl.stops > 0 /\ tl.stopReturned
    /\ srv' = [srv EXCEPT !.main = "D185"]
    /\ UNCHANGED <<eng, ing, tl, stats, order_pool_>>

UnwindD185Call == srv.main = "D185" /\ h.stops = 0 /\ StopL18

UnwindD185 ==
    /\ srv.main = "D185"
    /\ h.stops > 0 /\ h.stopReturned
    /\ srv' = [srv EXCEPT !.main = "L334"]
    /\ UNCHANGED <<eng, ing, tl, stats, order_pool_>>

MainReturn1 ==
    /\ srv.main = "L334"
    /\ srv' = [srv EXCEPT !.main = "exited", !.exit_code = 1]
    /\ UNCHANGED <<eng, ing, tl, stats, order_pool_>>

\* consoleInputThread lines 197-199: getline returns "quit" or "exit"
ConsoleQuit ==
    /\ srv.console = "L197"
    /\ srv' = [srv EXCEPT !.console = "done", !.quit = TRUE]
    /\ UNCHANGED <<eng, ing, tl, stats, order_pool_>>

\* consoleInputThread line 197: getline fails, the input has ended
ConsoleEof ==
    /\ srv.console = "L197"
    /\ srv' = [srv EXCEPT !.console = "done"]
    /\ UNCHANGED <<eng, ing, tl, stats, order_pool_>>

\* statsThread
StatsL228 ==
    /\ srv.stats = "L228"
    /\ srv' = [srv EXCEPT !.stats = IF srv.running_ THEN "L229" ELSE "done"]
    /\ UNCHANGED <<eng, ing, tl, stats, order_pool_>>

\* line 229: the sleep of ten seconds ends
StatsL229 ==
    /\ srv.stats = "L229"
    /\ srv' = [srv EXCEPT !.stats = "L230"]
    /\ UNCHANGED <<eng, ing, tl, stats, order_pool_>>

\* lines 230-232: "if (running_) printStats();"
StatsL230 ==
    /\ srv.stats = "L230"
    /\ srv' = [srv EXCEPT !.stats = "L228"]
    /\ UNCHANGED <<eng, ing, tl, stats, order_pool_>>

\* tcpServerThread lines 251-255: socket() succeeds or fails
TcpL251(ok) ==
    /\ srv.tcp = "L251"
    /\ srv' = IF ok THEN [srv EXCEPT !.tcp = "L265"]
              ELSE [srv EXCEPT !.tcp = "done", !.tcp_error = "socket"]
    /\ UNCHANGED <<eng, ing, tl, stats, order_pool_>>

\* lines 265-269: bind() succeeds or fails
TcpL265(ok) ==
    /\ srv.tcp = "L265"
    /\ srv' = IF ok THEN [srv EXCEPT !.tcp = "L271"]
              ELSE [srv EXCEPT !.tcp = "done", !.tcp_error = "bind"]
    /\ UNCHANGED <<eng, ing, tl, stats, order_pool_>>

\* lines 271-275: listen() succeeds or fails
TcpL271(ok) ==
    /\ srv.tcp = "L271"
    /\ srv' = IF ok THEN [srv EXCEPT !.tcp = "L279"]
              ELSE [srv EXCEPT !.tcp = "done", !.tcp_error = "listen"]
    /\ UNCHANGED <<eng, ing, tl, stats, order_pool_>>

\* line 279: "while (running_)", and line 293 after the loop
TcpL279 ==
    /\ srv.tcp = "L279"
    /\ srv' = [srv EXCEPT !.tcp = IF srv.running_ THEN "L283" ELSE "done"]
    /\ UNCHANGED <<eng, ing, tl, stats, order_pool_>>

\* line 283: accept() returns when a client connects; lines 284-288 hand the
\* connection to a detached thread
Accept ==
    /\ srv.tcp = "L283"
    /\ srv.accepted < MaxAccepts
    /\ srv' = [srv EXCEPT !.tcp = "L290", !.accepted = @ + 1]
    /\ UNCHANGED <<eng, ing, tl, stats, order_pool_>>

\* line 290: the sleep of ten milliseconds ends
TcpL290 ==
    /\ srv.tcp = "L290"
    /\ srv' = [srv EXCEPT !.tcp = "L279"]
    /\ UNCHANGED <<eng, ing, tl, stats, order_pool_>>

\* the thread of main
ServerMain ==
    \/ ServerL152
    \/ ServerL161Call
    \/ ServerL161
    \/ ServerL162Call
    \/ ServerL162
    \/ ServerL168
    \/ ServerL169
    \/ ServerL170
    \/ ServerL173
    \/ ServerL176
    \/ ServerL177
    \/ ServerL178
    \/ ServerL180Call
    \/ ServerL180
    \/ ServerL181Call
    \/ ServerL181
    \/ MainReturn0
    \/ UnwindD187Call
    \/ UnwindD187
    \/ UnwindD185Call
    \/ UnwindD185
    \/ MainReturn1

StatsThread == StatsL228 \/ StatsL229 \/ StatsL230

\* the steps of tcpServerThread that wait for nothing outside the process
TcpThread ==
    \/ \E ok \in BOOLEAN : TcpL251(ok)
    \/ \E ok \in BOOLEAN : TcpL265(ok)
    \/ \E ok \in BOOLEAN : TcpL271(ok)
    \/ TcpL279
    \/ TcpL290

\* what the outside world does: console input, a failing thread creation,
\* a client that connects
Outside ==
    \/ ConsoleQuit
    \/ ConsoleEof
    \/ ServerL168Throws
    \/ Accept

NextServer ==
    \/ ServerMain
    \/ StatsThread
    \/ TcpThread
    \/ Outside
    \/ WorkerIdle
    \/ Stopper
    \/ LogWorkerIdle
    \/ LogStopper

SpecServer == InitLog /\ [][NextServer]_vars

\* fair scheduling of every thread of the process; nothing is assumed of
\* the outside world
SpecServerFair ==
    /\ SpecServer
    /\ WF_vars(ServerMain)
    /\ WF_vars(StatsThread)
    /\ WF_vars(TcpThread)
    /\ WF_vars(WorkerIdle)
    /\ WF_vars(Stopper)
    /\ WF_vars(LogWorkerIdle)
    /\ WF_vars(LogStopper)

(***************************************************************************)
(* Properties                                                              *)
(***************************************************************************)

Range(seq) == {seq[i] : i \in DOMAIN seq}

Prices(book) == {book[i].price : i \in DOMAIN book}

\* highest resting buy price, lowest resting sell price (of non-empty books)
BestBid(book) == CHOOSE p \in Prices(book) : \A q \in Prices(book) : q <= p
BestAsk(book) == CHOOSE p \in Prices(book) : \A q \in Prices(book) : p <= q

RECURSIVE SumQuantity(_)
SumQuantity(seq) ==
    IF seq = <<>> THEN 0 ELSE seq[1].quantity + SumQuantity(Tail(seq))

RemoveAt(seq, i) == SubSeq(seq, 1, i - 1) \o SubSeq(seq, i + 1, Len(seq))

\* the matching thread is inside matchOrders
InMatch == pc = "L71"

\* matchOrders has run to its end for the order being processed
MatchFinished == pc = "L71" /\ ~CanMatch(buy_orders_, sell_orders_)

\* every submitted order has been dequeued and processed
Drained == h.processed = h.submitted

\* C1: non-crossing at rest.  Whenever the matching thread is not inside
\* matchOrders (so after it has finished any sequence of submitted orders),
\* one book is empty or the highest resting buy price is strictly below the
\* lowest resting sell price.
C1_NonCrossingAtRest ==
    ~InMatch =>
        \/ buy_orders_ = <<>>
        \/ sell_orders_ = <<>>
        \/ BestBid(buy_orders_) < BestAsk(sell_orders_)

C1_Witness ==
    /\ Drained
    /\ h.processed = MaxOrders
    /\ h.tradeCount >= 1
    /\ buy_orders_ # <<>>
    /\ sell_orders_ # <<>>

\* C2: conservation of quantity.  With a callback installed, once everything
\* submitted is processed, the quantity submitted on each side equals the
\* quantity of all emitted trades plus the quantity resting on that side.
C2_Conservation ==
    (trade_callback_ /\ Drained) =>
        /\ h.submittedQty[BUY]  = h.tradedQty + SumQuantity(buy_orders_)
        /\ h.submittedQty[SELL] = h.tradedQty + SumQuantity(sell_orders_)

C2_Witness ==
    /\ trade_callback_
    /\ Drained
    /\ h.tradeCount >= 2
    /\ buy_orders_ # <<>>
    /\ h.submittedQty[SELL] = h.tradedQty

\* C3: price-time priority.  Whenever a match is about to fill the resting
\* orders at the heads of the books, no other order of the same side rests
\* with a strictly better price, or with the same price and an earlier
\* arrival (orders are processed in the order of their ids).
C3_BuyHasPriority ==
    \A j \in 2..Len(buy_orders_) :
        /\ buy_orders_[j].price <= buy_orders_[1].price
        /\ buy_orders_[j].price = buy_orders_[1].price
              => buy_orders_[j].id > buy_orders_[1].id

C3_SellHasPriority ==
    \A j \in 2..Len(sell_orders_) :
        /\ sell_orders_[j].price >= sell_orders_[1].price
        /\ sell_orders_[j].price = sell_orders_[1].price
              => sell_orders_[j].id > sell_orders_[1].id

C3_PriceTimePriority ==
    (InMatch /\ CanMatch(buy_orders_, sell_orders_)) =>
        (C3_BuyHasPriority /\ C3_SellHasPriority)

C3_Witness ==
    /\ InMatch
    /\ CanMatch(buy_orders_, sell_orders_)
    /\ Len(buy_orders_) >= 3
    /\ buy_orders_[2].price = buy_orders_[1].price
    /\ buy_orders_[3].price < buy_orders_[1].price

\* the limit price of the order with this id in a book
PriceOf(book, id) == (CHOOSE o \in Range(book) : o.id = id).price

\* the maker of a trade emitted while `order` is processed: the order of the
\* opposite side, which rested in its book when processOrder was entered
MakerPrice(t) ==
    IF order.side = BUY THEN PriceOf(h.snapSell, t.sell_order_id)
                        ELSE PriceOf(h.snapBuy, t.buy_order_id)

\* C4: every emitted trade's price is the limit price of the maker, the one
\* of the two matched orders that was resting when the other was processed.
C4_TradeAtMakerPrice ==
    InMatch => \A i \in DOMAIN trades : trades[i].price = MakerPrice(trades[i])

\* ---- the order being processed, against the books at entry of processOrder ---

\* a sell is processed while a buy at a price >= its price is the best bid
\* and a higher-priced sell already rests; a callback is installed
C5_Case ==
    /\ MatchFinished
    /\ trade_callback_
    /\ order.side = SELL
    /\ h.snapBuy # <<>>
    /\ BestBid(h.snapBuy) >= order.price
    /\ \E o \in Range(h.snapSell) : o.price > order.price

\* C5 as stated: in that case exactly one trade is emitted for the sell, at
\* the sell's price.
C5_ExactlyOneTradeAtSellPrice ==
    C5_Case => (Len(trades) = 1 /\ trades[1].price = order.price)

\* C5 as amended: in that case at least one trade is emitted for the sell and
\* every one of them is at the sell's price; when the head of the best bid
\* has at least the sell's quantity there is exactly one trade, for the whole
\* of the sell, the bid keeps the difference and the resting sells stay.
C5_TradesAtSellPrice ==
    C5_Case =>
        /\ Len(trades) >= 1
        /\ \A i \in DOMAIN trades :
              /\ trades[i].price = order.price
              /\ trades[i].sell_order_id = order.id
        /\ h.snapBuy[1].quantity >= order.quantity =>
              /\ Len(trades) = 1
              /\ trades[1].quantity = order.quantity
              /\ trades[1].buy_order_id = h.snapBuy[1].id
              /\ sell_orders_ = h.snapSell
              /\ SumQuantity(buy_orders_) = SumQuantity(h.snapBuy) - order.quantity
              /\ Len(buy_orders_) = IF h.snapBuy[1].quantity = order.quantity
                                      THEN Len(h.snapBuy) - 1 ELSE Len(h.snapBuy)

C5_Witness ==
    /\ C5_Case
    /\ BestBid(h.snapBuy) > order.price
    /\ h.snapBuy[1].quantity > order.quantity
    /\ Len(trades) = 1
    /\ Len(buy_orders_) = 1
    /\ Len(sell_orders_) = 1

\* the order being processed does not cross the opposite book
C6_NoCross ==
    IF order.side = BUY
      THEN h.snapSell = <<>> \/ order.price < BestAsk(h.snapSell)
      ELSE h.snapBuy = <<>> \/ order.price > BestBid(h.snapBuy)

\* book is snap with exactly the order o added
C6_AddedTo(book, snap, o) ==
    \E i \in DOMAIN book : book[i] = o /\ RemoveAt(book, i) = snap

\* C6: processing an order that does not cross the opposite book emits no
\* trade, adds exactly one resting order with its full quantity at its price
\* to its own side's book, and leaves the opposite book and every
\* previously resting order unchanged.
C6_NoCrossOrderRests ==
    (MatchFinished /\ C6_NoCross) =>
        /\ trades = <<>>
        /\ IF order.side = BUY
             THEN /\ C6_AddedTo(buy_orders_, h.snapBuy, order)
                  /\ sell_orders_ = h.snapSell
             ELSE /\ C6_AddedTo(sell_orders_, h.snapSell, order)
                  /\ buy_orders_ = h.snapBuy

C6_Witness ==
    /\ MatchFinished
    /\ C6_NoCross
    /\ order.side = BUY
    /\ h.snapBuy # <<>>
    /\ h.snapSell # <<>>
    /\ h.tradeCount >= 1

\* ---- walking the book: what a buy of `quantity` with limit `limit` takes
\* ---- from the asks, taken from the best ask outwards
RECURSIVE WalkTrades(_, _, _, _)
WalkTrades(asks, id, limit, quantity) ==
    IF asks = <<>> \/ quantity = 0 \/ asks[1].price > limit THEN <<>>
    ELSE LET q == IF quantity < asks[1].quantity THEN quantity ELSE asks[1].quantity
         IN <<Trade(id, asks[1].id, asks[1].price, q)>>
              \o WalkTrades(Tail(asks), id, limit, quantity - q)

RECURSIVE WalkAsks(_, _, _)
WalkAsks(asks, limit, quantity) ==
    IF asks = <<>> \/ quantity = 0 \/ asks[1].price > limit THEN asks
    ELSE IF quantity < asks[1].quantity
           THEN <<[asks[1] EXCEPT !.quantity = @ - quantity]>> \o Tail(asks)
           ELSE WalkAsks(Tail(asks), limit, quantity - asks[1].quantity)

\* C7: an incoming buy that crosses produces its trades in ascending
\* ask-price order, first-in-first-out inside a level, each at the resting
\* ask's price, until the buy is exhausted or the next ask is above its limit;
\* asks above the limit are untouched, a partly consumed ask keeps its reduced
\* quantity, and the buy rests only with what it could not fill.
C7_WalkingTheBook ==
    (MatchFinished /\ trade_callback_ /\ order.side = BUY) =>
        /\ \A i, j \in DOMAIN trades : i < j =>
              /\ trades[i].price <= trades[j].price
              /\ trades[i].price = trades[j].price
                    => trades[i].sell_order_id < trades[j].sell_order_id
        /\ \A i \in DOMAIN trades :
              /\ trades[i].price = PriceOf(h.snapSell, trades[i].sell_order_id)
              /\ trades[i].price <= order.price
        /\ trades = WalkTrades(h.snapSell, order.id, order.price, order.quantity)
        /\ sell_orders_ = WalkAsks(h.snapSell, order.price, order.quantity)
        /\ \A o \in Range(h.snapSell) : o.price > order.price => o \in Range(sell_orders_)
        /\ SumQuantity(buy_orders_) =
              SumQuantity(h.snapBuy) + order.quantity - SumQuantity(trades)

\* asks at three levels, a buy that takes the first, part of the second and
\* none of the third
C7_Witness ==
    /\ MatchFinished
    /\ trade_callback_
    /\ order.side = BUY
    /\ Len(h.snapSell) = 3
    /\ Len(trades) = 2
    /\ trades[1].price < trades[2].price
    /\ trades[1].quantity = h.snapSell[1].quantity
    /\ trades[2].quantity < h.snapSell[2].quantity
    /\ h.snapSell[3].price > order.price
    /\ Len(sell_orders_) = 2
    /\ buy_orders_ = <<>>

\* a step of the matching loop: inside matchOrders a book changes
C8_MatchStep ==
    /\ InMatch
    /\ <<buy_orders_, sell_orders_>>' # <<buy_orders_, sell_orders_>>

\* the head after a fill of q: gone when nothing remains, else reduced by q
C8_Filled(book, q) ==
    IF book[1].quantity = q THEN Tail(book)
    ELSE <<[book[1] EXCEPT !.quantity = @ - q]>> \o Tail(book)

\* C8: every match trades min(remaining of the head bid, remaining of the
\* head ask); both heads lose exactly that quantity, never more than they
\* have; a head that reaches zero leaves its book and the other keeps the
\* difference.
C8_MinQuantityFill ==
    [][C8_MatchStep =>
        LET b == buy_orders_[1]
            s == sell_orders_[1]
            q == IF b.quantity <= s.quantity THEN b.quantity ELSE s.quantity
        IN /\ q <= b.quantity /\ q <= s.quantity
           /\ trade_callback_ =>
                 /\ Len(trades') = Len(trades) + 1
                 /\ trades'[Len(trades')].quantity = q
                 /\ trades'[Len(trades')].buy_order_id = b.id
                 /\ trades'[Len(trades')].sell_order_id = s.id
           /\ buy_orders_' = C8_Filled(buy_orders_, q)
           /\ sell_orders_' = C8_Filled(sell_orders_, q)
           /\ SumQuantity(buy_orders_') = SumQuantity(buy_orders_) - q
           /\ SumQuantity(sell_orders_') = SumQuantity(sell_orders_) - q]_vars

\* a buy of two units then a sell of one unit: one trade of one unit, the
\* buy rests with one unit, the sell book is empty
C8_Witness ==
    /\ MatchFinished
    /\ order.side = SELL
    /\ h.snapBuy # <<>>
    /\ h.snapBuy[1].quantity = 2
    /\ order.quantity = 1
    /\ Len(trades) = 1
    /\ trades[1].quantity = 1
    /\ buy_orders_ = <<[h.snapBuy[1] EXCEPT !.quantity = 1]>>
    /\ sell_orders_ = <<>>

\* ---- lifecycle ---------------------------------------------------------------

\* on an engine that was never started nothing is dequeued, so the queue
\* holds every order submitted so far: a buy, then a sell that crosses it
C9_CrossingPairSubmitted ==
    /\ h.starts = 0
    /\ trade_callback_
    /\ Len(order_queue_) = 2
    /\ order_queue_[1].side = BUY
    /\ order_queue_[2].side = SELL
    /\ order_queue_[2].price <= order_queue_[1].price

\* C9: on a freshly constructed engine with a callback, used without
\* start(), once submitOrder has returned for an order that crosses an
\* earlier one the callback has been invoked and the book counts show the
\* fill.
C9_SubmitReturnsAfterTrade ==
    C9_CrossingPairSubmitted =>
        /\ h.tradeCount >= 1
        /\ h.processed = h.submitted

\* C10: shutdown drain.  Once stop() has returned on a started engine, every
\* order whose submitOrder returned before stop() was called has been
\* dequeued and processed to the end.
C10_ShutdownDrain ==
    (h.stopReturned /\ h.stopStarted) =>
        h.processed >= h.stopSubmitted

C10_Witness ==
    /\ h.stopReturned
    /\ h.stopStarted
    /\ h.stopQueued >= 1
    /\ h.stopSubmitted >= 2
    /\ h.processed = h.stopSubmitted
    /\ h.tradeCount >= 1

\* a step of stop() itself: only stop() moves the controller
StopStep == ctl' # ctl

\* the step on which stop() returns
StopReturns == ctl = "L20" /\ ctl' = "ready"

\* C11: no order is dropped during shutdown.  When stop() returns on a
\* started engine, whatever the interleaving with the producers, the
\* submission queue is empty.
C11_QueueEmptyWhenStopReturns ==
    [][(StopReturns /\ h.stopStarted) => order_queue_' = <<>>]_vars

\* stop() has returned and start() was not called since
Stopped == h.stopReturned /\ ~joinable

\* C13 as stated: after stop() has returned the callback is never invoked
\* again.
C13_NoCallbackAfterStop ==
    [][h.stopReturned => h.tradeCount' = h.tradeCount]_vars

\* C13 as amended: after stop() has returned, and as long as start() is not
\* called again, the callback is not invoked and no order is processed, also
\* not for the orders submitted after stop() returned.
C13_NoCallbackWhileStopped ==
    [][Stopped => /\ h.tradeCount' = h.tradeCount
                  /\ trades' = trades
                  /\ h.popped' = h.popped
                  /\ buy_orders_' = buy_orders_
                  /\ sell_orders_' = sell_orders_]_vars

\* the engine ran, made a trade and was stopped; a buy and a sell that cross
\* were submitted after stop() returned and wait in the queue
C13_Witness ==
    /\ Stopped
    /\ h.stopStarted
    /\ h.tradeCount >= 1
    /\ Len(order_queue_) = 2
    /\ order_queue_[1].id > h.stopSubmitted
    /\ order_queue_[1].side = BUY
    /\ order_queue_[2].side = SELL
    /\ order_queue_[2].price <= order_queue_[1].price

\* C12: under fair scheduling every call of stop() returns.
C12_StopTerminates == (ctl # "ready") ~> (ctl = "ready")

\* the sequence p is an initial part of the sequence q
IsPrefix(p, q) ==
    /\ Len(p) <= Len(q)
    /\ \A i \in 1..Len(p) : p[i] = q[i]

\* C15: the matching thread takes the orders in exactly the order of their
\* push, and two orders of one ingress thread in the order in which that
\* thread parsed and submitted them (its identifiers increase).
C15_PerProducerFifo ==
    /\ IsPrefix(h.popped, h.enqueued)
    /\ \A i, j \in 1..Len(h.popped) :
          (i < j /\ h.owner[h.popped[i]] = h.owner[h.popped[j]])
              => h.popped[i] < h.popped[j]

\* three orders were taken, two of one thread and one of the other, and the
\* pushes of the two threads overtook each other
C15_Witness ==
    /\ Len(h.popped) >= 3
    /\ \E i, j \in 1..Len(h.popped) : i < j /\ h.popped[i] > h.popped[j]
    /\ \E i, j \in 1..Len(h.popped) :
          i < j /\ h.owner[h.popped[i]] = h.owner[h.popped[j]]
    /\ \E i, j \in 1..Len(h.popped) :
          h.owner[h.popped[i]] # h.owner[h.popped[j]]

\* C16: while the engine runs, under fair scheduling every submitted order is
\* eventually processed; a push is never missed by a matching thread that is
\* blocked in its wait or about to block.
C16_SubmittedEventuallyProcessed ==
    \A n \in 1..MaxOrders : (h.submitted >= n) ~> (h.processed >= n)

\* an order was pushed while the matching thread was blocked in its wait,
\* after an earlier order had been processed
C16_Witness ==
    /\ running_
    /\ pc = "woken"
    /\ order_queue_ # <<>>
    /\ h.processed >= 1
    /\ h.processed < h.submitted

\* a statement of TradeLogger::stop() is executed
LogStopStep == tl.ctl' # tl.ctl

\* C14: a stop() that finds no thread to join, because the engine or the
\* logger was never started or was stopped before, changes neither the books,
\* the queues nor the statistics, and its join step is never blocked.
C14_StopIdempotent ==
    /\ [][(StopStep /\ ~joinable) =>
            UNCHANGED <<buy_orders_, sell_orders_, order_queue_, queue_mutex_,
                        running_, joinable, trade_callback_, pc, order, trades,
                        aux>>]_vars
    /\ []((ctl = "L20" /\ ~joinable) => ENABLED StopL20)
    /\ [][(LogStopStep /\ ~tl.joinable) =>
            /\ tl.trade_queue_' = tl.trade_queue_
            /\ tl.queue_mutex_' = tl.queue_mutex_
            /\ tl.running_' = tl.running_
            /\ tl.joinable' = tl.joinable
            /\ tl.pc' = tl.pc
            /\ tl.file_' = tl.file_
            /\ UNCHANGED <<buy_orders_, sell_orders_, order_queue_, trades,
                           ing, stats>>]_vars
    /\ []((tl.ctl = "L26" /\ ~tl.joinable) => ENABLED LogStopL26)

\* a second stop() has returned on an engine that was started, made a trade
\* and was stopped by the first one
C14_Witness ==
    /\ h.stops = 2
    /\ h.starts = 1
    /\ h.stopReturned
    /\ ~h.stopStarted
    /\ h.tradeCount >= 1
    /\ pc = "done"

\* the same on a logger that wrote a trade, with a trade left in its queue
C14_LoggerCase ==
    /\ tl.stops = 2
    /\ tl.starts = 1
    /\ tl.stopReturned
    /\ ~tl.stopStarted
    /\ Len(tl.file_) >= 1
    /\ tl.trade_queue_ # <<>>

\* the lines of the file are the first trades passed to logTrade, in order
WrittenInOrder ==
    /\ Len(tl.file_) <= Len(tl.passed)
    /\ \A i \in 1..Len(tl.file_) : tl.file_[i] = FormatTrade(tl.passed[i])

\* stop() was called on a started logger and has returned
LogStopReturned == tl.stopReturned /\ tl.stopStarted

DepthRead ==
    /\ ing.th[Console].pc \in {"L223", "L224"}
    /\ ing.th[Console].pc' # ing.th[Console].pc

\* C19: a depth read by an ingress thread never touches a book container
\* while the matching thread may be writing it.
C19_DepthReadNeverRaces == [][DepthRead => ~Mutating]_vars

\* the identifiers of the orders resting in the two books
BookIds ==
    [i \in 1..(Len(buy_orders_) + Len(sell_orders_)) |->
        IF i <= Len(buy_orders_)
        THEN buy_orders_[i].id
        ELSE sell_orders_[i - Len(buy_orders_)].id]

\* no element occurs twice in the sequence
Distinct(seq) == \A i, j \in 1..Len(seq) : i # j => seq[i] # seq[j]

\* C20: the identifiers handed out by the shared parser are pairwise
\* distinct: no identifier is pushed twice, and none occurs twice across the
\* buy book and the sell book.
C20_UniqueIds ==
    /\ Distinct(h.enqueued)
    /\ Distinct(BookIds)

\* orders parsed by different threads rest in the books, one of them parsed
\* while the other thread held a parsed order it had not submitted yet
C20_Witness ==
    /\ Len(BookIds) >= 3
    /\ \E i, j \in 1..Len(BookIds) : h.owner[BookIds[i]] # h.owner[BookIds[j]]
    /\ \E i, j \in 1..Len(h.enqueued) : i < j /\ h.enqueued[i] > h.enqueued[j]

\* C18: the values that a reader of the statistics obtains satisfy
\* min <= average <= max, whatever the matching thread is doing in
\* recordLatency meanwhile.
C18_MinLeAvgLeMax ==
    stats.rpc = "read" =>
        /\ MinLeAverage(stats.min_ns, stats.total, stats.orders)
        /\ AverageLeMax(stats.total, stats.orders, stats.max_ns)

\* the same for the counters themselves when recordLatency is not running
C18_AtRest ==
    stats.pc = "idle" =>
        /\ MinLeAverage(stats.min_latency_ns, stats.total_latency_ns, stats.total_orders)
        /\ AverageLeMax(stats.total_latency_ns, stats.total_orders, stats.max_latency_ns)

\* only buy orders were submitted, at least two, each at a higher price
\* than the one before, and all of them are processed
C26_OnlyRisingBuys ==
    /\ trade_callback_
    /\ Drained
    /\ h.submitted >= 2
    /\ h.submittedQty[SELL] = 0
    /\ Len(buy_orders_) = h.submitted
    /\ \A i, j \in DOMAIN buy_orders_ :
          buy_orders_[i].id < buy_orders_[j].id
              => buy_orders_[i].price < buy_orders_[j].price

\* C26: after only buy orders at strictly increasing prices, the trade
\* callback has been invoked at least once.
C26_RisingBuysTrade == C26_OnlyRisingBuys => h.tradeCount >= 1

\* the order with this id rests in the book and carries this side
RestsWithSide(book, id, side) ==
    \E i \in DOMAIN book : book[i].id = id /\ book[i].side = side

\* C27: the buy_order_id of every emitted Trade is the id of an order that
\* was submitted with side BUY and its sell_order_id that of an order
\* submitted with side SELL (the orders carry their side from submitOrder
\* to the book unchanged).
C27_OppositeSides ==
    [][(Len(trades') = Len(trades) + 1) =>
          /\ RestsWithSide(buy_orders_, trades'[Len(trades')].buy_order_id, BUY)
          /\ RestsWithSide(sell_orders_, trades'[Len(trades')].sell_order_id, SELL)
          /\ ~RestsWithSide(buy_orders_, trades'[Len(trades')].sell_order_id, BUY)
          /\ ~RestsWithSide(sell_orders_, trades'[Len(trades')].buy_order_id, SELL)]_vars

\* a second trade of one incoming order has been emitted
C27_Witness ==
    /\ InMatch
    /\ Len(trades) = 2
    /\ trades[1].buy_order_id # trades[2].buy_order_id
    /\ trades[1].sell_order_id = order.id

\* C28: the matching thread does not hold queue_mutex_ while it runs
\* processOrder and the trade callback, so submitOrder never waits for them.
C28_MutexFreeWhileProcessing == Mutating => queue_mutex_ = "free"

\* the queue was full when the order was taken and is full again: an order
\* was submitted while the matching thread ran processOrder with a trade
C28_Witness ==
    /\ InMatch
    /\ trades # <<>>
    /\ Len(order_queue_) = MaxQueue
    /\ order_queue_[1].id = order.id + 1

\* C29: with quantities above zero submitted, every order resting in a book
\* while matchOrders is not running has a remaining quantity above zero, and
\* every emitted Trade has a quantity above zero.
C29_PositiveQuantities ==
    /\ ~InMatch =>
          \A o \in Range(buy_orders_) \cup Range(sell_orders_) : o.quantity > 0
    /\ \A i \in DOMAIN trades : trades[i].quantity > 0

\* an order rests after a partial fill, next to a fully filled one
C29_Witness ==
    /\ ~InMatch
    /\ Drained
    /\ h.tradeCount >= 2
    /\ h.partial # {}
    /\ h.submittedQty[BUY] > h.tradedQty
    /\ h.submittedQty[BUY] < h.tradedQty + MaxQty

\* the order at position i is the first of its price level in the book
FirstOfLevel(book, i) == \A j \in 1..(i - 1) : book[j].price # book[i].price

\* C30: a resting order that was partly filled is still the first of its
\* price level, in front of every order of that price processed later, so
\* the next trade at that level fills it again.
C30_PartialFillKeepsPriority ==
    /\ \A i \in DOMAIN buy_orders_ :
          buy_orders_[i].id \in h.partial =>
              /\ FirstOfLevel(buy_orders_, i)
              /\ \A j \in DOMAIN buy_orders_ :
                    (j # i /\ buy_orders_[j].price = buy_orders_[i].price)
                        => buy_orders_[j].id > buy_orders_[i].id
    /\ \A i \in DOMAIN sell_orders_ :
          sell_orders_[i].id \in h.partial =>
              /\ FirstOfLevel(sell_orders_, i)
              /\ \A j \in DOMAIN sell_orders_ :
                    (j # i /\ sell_orders_[j].price = sell_orders_[i].price)
                        => sell_orders_[j].id > sell_orders_[i].id

\* a partly filled buy, with a later buy of the same price behind it, is at
\* the head of the bids when the next sell is about to be matched
C30_Witness ==
    /\ InMatch
    /\ order.side = SELL
    /\ trades = <<>>
    /\ CanMatch(buy_orders_, sell_orders_)
    /\ Len(buy_orders_) >= 2
    /\ buy_orders_[1].id \in h.partial
    /\ buy_orders_[2].price = buy_orders_[1].price
    /\ buy_orders_[2].id > buy_orders_[1].id

(***************************************************************************)
(* The decoder and the client handler                                       *)
(***************************************************************************)

\* the orders that left the decoder and are on their way to the book
Decoded ==
    {ing.th[t].order : t \in {u \in Clients : ing.th[u].pc = "parsed"}}
        \cup Range(order_queue_)

\* C21: every Order the decoder yields has a price > 0 and a quantity > 0
\* that fits 32 bits, so no line with a zero, negative or out-of-range price
\* or quantity results in an enqueued order
C21_DecodedOrdersValid ==
    \A o \in Decoded : o.price > 0 /\ o.quantity > 0 /\ o.quantity < UIntWrap

\* a line the protocol rejects: a key is missing, a number text is not a
\* number, or the side is not one of the four spellings
Malformed(json_str) ==
    \/ ~HasKeys(json_str)
    \/ json_str.price[1] # "num"
    \/ json_str.quantity[1] # "num"
    \/ json_str.side \notin {"buy", "BUY", "sell", "SELL"}

\* C22: decoding a malformed line yields no order, enqueues nothing, writes
\* no ACK, makes no trade, leaves the books alone, and the handler goes back
\* to reading
C22_MalformedLineRejected ==
    [][\A t \in Clients :
          (ing.th[t].pc = "L309" /\ Malformed(ing.th[t].line)
              /\ ing'.th[t].pc # "L309")
          => /\ ing'.th[t].pc = "idle"
             /\ ing'.next_order_id_ = ing.next_order_id_
             /\ ing'.acks = ing.acks
             /\ UNCHANGED <<order_queue_, buy_orders_, sell_orders_, trades>>]_vars

\* what does hold for C22: a line with a missing key, a number text that
\* starts with no number or is out of range, or an unknown side is rejected,
\* and every ACK answers an enqueued order of a client
C22_ThrowingLineRejected ==
    [][\A t \in Clients :
          (ing.th[t].pc = "L309" /\ ing'.th[t].pc # "L309"
              /\ (\/ ~HasKeys(ing.th[t].line)
                  \/ ing.th[t].line.price[1] \in {"junk", "huge"}
                  \/ ing.th[t].line.quantity[1] \in {"junk", "huge"}
                  \/ ing.th[t].line.side \notin {"buy", "BUY", "sell", "SELL"}))
          => /\ ing'.th[t].pc = "idle"
             /\ ing'.next_order_id_ = ing.next_order_id_
             /\ ing'.acks = ing.acks
             /\ UNCHANGED <<order_queue_, buy_orders_, sell_orders_, trades>>]_vars

C22_AckOnlyForEnqueued ==
    ing.acks = Cardinality({i \in DOMAIN h.enqueued : h.owner[h.enqueued[i]] \in Clients})

(***************************************************************************)
(* MemoryPool                                                               *)
(***************************************************************************)

\* the step is a call of acquire
AcquireStep == order_pool_'.acquired = order_pool_.acquired + 1

\* C25: acquire always returns an object of the pool that no one else holds;
\* on an empty free list it grows the pool to exactly twice its size (to
\* initial_size_ if the pool has no object), otherwise not at all; pool_ never
\* shrinks
C25_AcquireGrowsAndSucceeds ==
    [][/\ order_pool_'.pool_ >= order_pool_.pool_
       /\ AcquireStep =>
            /\ \E ptr \in 1..order_pool_'.pool_ :
                  /\ ptr \notin order_pool_.held
                  /\ order_pool_'.held = order_pool_.held \cup {ptr}
            /\ order_pool_'.pool_ =
                  IF order_pool_.available_ # <<>> THEN order_pool_.pool_
                  ELSE IF order_pool_.pool_ = 0 THEN initial_size_
                  ELSE 2 * order_pool_.pool_]_vars

\* a pool constructed with objects was exhausted, and the next acquire
\* doubled it and handed out one of the new objects
C25_Witness ==
    /\ order_pool_.arg > 0
    /\ order_pool_.pool_ = 2 * order_pool_.arg
    /\ Cardinality(order_pool_.held) = order_pool_.arg + 1
    /\ Len(order_pool_.available_) = order_pool_.arg - 1

(***************************************************************************)
(* The server's shutdown and exit code                                      *)
(***************************************************************************)

\* start() has returned
StartReturned == srv.main \in {"L182", "exited"} /\ srv.exit_code # 1

\* C23: after quit or exit is read on the console, start() eventually
\* returns (the statistics and TCP threads joined, the engine and then the
\* logger stopped) with no further event from outside
C23_QuitShutsDown == srv.quit ~> StartReturned

\* C24: main returns 0 after a clean shutdown and a value other than 0
\* whenever bind or listen failed
C24_ExitCode ==
    (srv.exit_code # NoExit) =>
        IF srv.tcp_error \in {"bind", "listen"} THEN srv.exit_code # 0
        ELSE (srv.main = "exited" /\ srv.quit) => srv.exit_code = 0

\* the part of C23 that ends with the joins of start() lines 173-178; it
\* fails on its own, without the engine or the logger being stopped
C23_JoinsReturn ==
    srv.quit ~> (srv.main \notin {"L168", "L169", "L170", "L173", "L176", "L177", "L178"})

(***************************************************************************)
(* The submission queue and its mutex                                       *)
(***************************************************************************)

\* the matching thread takes a step that reads or writes order_queue_: the
\* emptiness test of line 36 (evaluated when running_ is false), the wait
\* predicate of line 38, the test, front() and pop() of lines 40-42
WorkerQueueAccess ==
    \/ pc = "L36" /\ pc' # pc /\ ~running_
    \/ pc = "L38" /\ pc' # pc
    \/ pc = "L40" /\ pc' # pc

\* C31: every read or write of the submission queue by the matching thread
\* is made with queue_mutex_ held by it, and a producer pushes only when
\* the matching thread does not hold it
C31_QueueAccessUnderMutex ==
    [][/\ WorkerQueueAccess => queue_mutex_ = "worker"
       /\ (Len(order_queue_') > Len(order_queue_)) => queue_mutex_ = "free"]_vars

(***************************************************************************)
(* The latency sample of processOrder                                       *)
(***************************************************************************)

\* C32: one latency sample per processed order, recorded after its crossing
\* has finished: total_orders equals the number of processOrder calls that
\* returned, plus one only between the recordLatency call and the return of
\* processOrder; so once the queue is drained it equals the number of orders
\* processed
C32_OneSamplePerOrder ==
    /\ pc # "L67" => stats.total_orders = h.processed
    /\ pc = "L67" => stats.total_orders \in {h.processed, h.processed + 1}
    /\ (Drained /\ pc # "L67") => stats.total_orders = h.submitted

\* two orders were processed, one of them without a trade and the other
\* with one, and both samples are in
C32_Witness ==
    /\ Drained
    /\ pc \notin {"L45", "L71", "L67"}
    /\ h.processed = 2
    /\ h.tradeCount = 1
    /\ stats.total_orders = 2

(***************************************************************************)
(* recordLatency under concurrent calls                                     *)
(***************************************************************************)

RECURSIVE SeqSum(_)
SeqSum(s) == IF s = <<>> THEN 0 ELSE Head(s) + SeqSum(Tail(s))

SeqMin(s) == CHOOSE x \in Range(s) : \A y \in Range(s) : x <= y

SeqMax(s) == CHOOSE x \in Range(s) : \A y \in Range(s) : x >= y

\* no thread is inside recordLatency and at least one call was made
AllRecorded ==
    /\ stats.samples # <<>>
    /\ \A t \in Recorders : stats.rec[t].pc = "idle"

\* the minimum only goes down and the maximum only goes up
MinMaxMonotonic ==
    /\ stats'.min_latency_ns <= stats.min_latency_ns
    /\ stats'.max_latency_ns >= stats.max_latency_ns

\* C33 as stated: once all concurrent recordLatency calls have completed,
\* min_latency_ns and max_latency_ns are the minimum and the maximum of the
\* samples, total_latency_ns is their sum and total_orders their number; the
\* minimum never increases and the maximum never decreases
C33_NoLostUpdate ==
    /\ [](AllRecorded =>
            /\ stats.min_latency_ns = SeqMin(stats.samples)
            /\ stats.max_latency_ns = SeqMax(stats.samples)
            /\ stats.total_latency_ns = SeqSum(stats.samples)
            /\ stats.total_orders = Len(stats.samples))
    /\ [][MinMaxMonotonic]_vars

\* C33 amended: the same, with total_latency_ns the sum of the samples
\* modulo the width of the counter
C33_NoLostUpdateModulo ==
    /\ [](AllRecorded =>
            /\ stats.min_latency_ns = SeqMin(stats.samples)
            /\ stats.max_latency_ns = SeqMax(stats.samples)
            /\ stats.total_latency_ns = SeqSum(stats.samples) % (MaxU64 + 1)
            /\ stats.total_orders = Len(stats.samples))
    /\ [][MinMaxMonotonic]_vars

\* two calls with different samples, the larger one entered first, have
\* both completed: the minimum is the second sample, the maximum the first
C33_Witness ==
    /\ AllRecorded
    /\ Len(stats.samples) = 2
    /\ stats.samples[1] > stats.samples[2]
    /\ stats.min_latency_ns = stats.samples[2]
    /\ stats.max_latency_ns = stats.samples[1]

(***************************************************************************)
(* The depth an outside thread is given                                     *)
(***************************************************************************)

\* the two books after matchOrders has run to its end on them
RECURSIVE CrossedBooks(_, _)
CrossedBooks(buys, sells) ==
    IF ~CanMatch(buys, sells) THEN <<buys, sells>>
    ELSE LET trade_quantity == TradeQuantity(buys[1], sells[1])
         IN CrossedBooks(AfterFill(buys, Decrement(buys[1].quantity, trade_quantity)),
                         AfterFill(sells, Decrement(sells[1].quantity, trade_quantity)))

\* the sizes of the buy book in the states between two processOrder calls
\* that surround the present state
RestingBuyCounts ==
    IF pc = "L45"
    THEN {Len(buy_orders_),
          Len(CrossedBooks(IF order.side = BUY THEN EmplaceBuy(buy_orders_, order)
                                               ELSE buy_orders_,
                           IF order.side = SELL THEN EmplaceSell(sell_orders_, order)
                                                ELSE sell_orders_)[1])}
    ELSE IF pc = "L71"
    THEN {Len(h.snapBuy), Len(CrossedBooks(buy_orders_, sell_orders_)[1])}
    ELSE {Len(buy_orders_)}

\* C34: the depth getBuyOrdersCount() returns to the console thread is the
\* number of resting buy orders of a state between the processing of two
\* orders; it never counts an incoming order whose crossing is not finished
C34_DepthOfRestingBook ==
    [][(ing.th[Console].pc = "L223" /\ ing'.th[Console].pc = "L224")
          => ing'.counts.buy \in RestingBuyCounts]_vars

(***************************************************************************)
(* Termination of the crossing loop                                         *)
(***************************************************************************)

\* the step is one iteration of the loop of matchOrders: the matching thread
\* stays in the loop, and the step is not a producer's push
MatchIteration == pc = "L71" /\ pc' = "L71" /\ order_queue_' = order_queue_

\* C35: every iteration of the crossing loop removes at least one order from
\* a book, the loop makes at most as many iterations as there were resting
\* orders in both books, and it terminates, for orders of quantity 0 as well
C35_MatchingIsTotal ==
    /\ [][MatchIteration =>
            Len(buy_orders_') + Len(sell_orders_') < Len(buy_orders_) + Len(sell_orders_)]_vars
    /\ [](InMatch =>
            /\ Len(buy_orders_) + Len(sell_orders_) <= Len(h.snapBuy) + Len(h.snapSell) + 1
            /\ CanMatch(buy_orders_, sell_orders_) =>
                  Len(buy_orders_) + Len(sell_orders_) >= 2
            /\ trade_callback_ => Len(trades) <= Len(h.snapBuy) + Len(h.snapSell))
    /\ (InMatch ~> ~InMatch)

\* two orders rested, one of them with quantity 0; the incoming order has
\* crossed both in two iterations, the first one a trade of quantity 0, and
\* the loop is about to end
C35_Witness ==
    /\ InMatch
    /\ trade_callback_
    /\ Len(h.snapBuy) + Len(h.snapSell) = 2
    /\ Len(trades) = 2
    /\ trades[1].quantity = 0
    /\ trades[2].quantity > 0
    /\ ~CanMatch(buy_orders_, sell_orders_)
(***************************************************************************)
(* Termination of TradeLogger::stop                                         *)
(***************************************************************************)

\* C36: a stop() called on a started logger returns
C36_LogStopTerminates ==
    (tl.stopStarted /\ tl.ctl # "ready") ~> (tl.ctl = "ready")

(***************************************************************************)
(* start() and stop() in any order                                          *)
(***************************************************************************)

\* C37: whatever start() and stop() calls are made, the process is not
\* aborted: a start() made while a worker exists leaves that worker as the
\* only one and the process alive
C37_StartNeverAborts == pc # "terminated" /\ ctl # "terminated"

(***************************************************************************)
(* The books and the trade sink                                             *)
(***************************************************************************)

\* the two books after the order being processed has been inserted into the
\* books processOrder found and matchOrders has run to its end: a function of
\* these books and of the order alone
BooksAfterOrder ==
    CrossedBooks(IF order.side = BUY THEN EmplaceBuy(h.snapBuy, order) ELSE h.snapBuy,
                 IF order.side = SELL THEN EmplaceSell(h.snapSell, order) ELSE h.snapSell)

\* C38: with or without a trade callback, processing an order leads from the
\* same books to the same books; without a callback the crosses are executed
\* and no Trade is emitted
C38_BooksIndependentOfSink ==
    /\ InMatch => CrossedBooks(buy_orders_, sell_orders_) = BooksAfterOrder
    /\ MatchFinished => <<buy_orders_, sell_orders_>> = BooksAfterOrder
    /\ ~trade_callback_ => trades = <<>> /\ h.tradeCount = 0

\* no callback is installed, and the order being processed has crossed two
\* resting orders, which have left their book, without a Trade being emitted
C38_Witness ==
    /\ ~trade_callback_
    /\ MatchFinished
    /\ Len(buy_orders_) + Len(sell_orders_) + 1 < Len(h.snapBuy) + Len(h.snapSell)
    /\ trades = <<>>

(***************************************************************************)
(* Who owns the objects of the pool                                         *)
(***************************************************************************)

\* the objects on the free list
FreeObjects == {order_pool_.available_[i] : i \in DOMAIN order_pool_.available_}

\* the step is the drop of a handle: an object stops being held
DropStep == order_pool_'.held # order_pool_.held /\ order_pool_'.held \subseteq order_pool_.held

\* C39: every object of the pool is either once on the free list or held by
\* a handle, never both; acquire hands out an object no handle holds; the
\* drop of a handle pushes its object on the free list once; held objects
\* plus free objects are as many as the pool has
C39_PoolExclusivity ==
    /\ [](/\ \A i, j \in DOMAIN order_pool_.available_ :
                order_pool_.available_[i] = order_pool_.available_[j] => i = j
          /\ FreeObjects \cap order_pool_.held = {}
          /\ FreeObjects \cup order_pool_.held = 1..order_pool_.pool_
          /\ Cardinality(order_pool_.held) + Len(order_pool_.available_)
                = order_pool_.pool_)
    /\ [][/\ AcquireStep =>
               Cardinality(order_pool_'.held) = Cardinality(order_pool_.held) + 1
          /\ DropStep =>
               \E ptr \in order_pool_.held :
                  /\ order_pool_'.held = order_pool_.held \ {ptr}
                  /\ order_pool_'.available_ = Append(order_pool_.available_, ptr)]_vars

\* three objects were acquired, the pool grew from two objects to four, and
\* the handle of the object acquired second was dropped: that object is on top
\* of the free list while two handles are live
C39_Witness ==
    /\ order_pool_.pool_ = 4
    /\ order_pool_.acquired = 3
    /\ order_pool_.held = {2, 4}
    /\ order_pool_.available_ = <<3, 1>>

====
